---- MODULE Spec2Model ----
(***************************************************************************)
(* A model of the postgres-client wire codec (src/src/messages), its byte  *)
(* readers (src/src/readers.rs) and the blocking and cooperative           *)
(* connection adapters (src/src/frontend.rs, src/src/backend/sync.rs,      *)
(* src/src/backend/async.rs).                                              *)
(*                                                                         *)
(* A byte is a number in 0..255 and a byte string is a sequence of bytes.  *)
(* A reader position is the number of bytes already consumed.              *)
(***************************************************************************)
EXTENDS Integers, Sequences, FiniteSets, TLC

VARIABLES
    \* ---- codec round trip (SpecCodec) ----
    cpc,        \* "idle" | "chosen" | "encoded" | "decoded"
    msg,        \* the message value being encoded
    wire,       \* the outcome of msg.encode()
    decoded,    \* the outcome of the variant-dispatch decoder on wire
    \* ---- in-memory stream of frames (SpecStream) ----
    role,       \* "backend" | "frontend": which variant-dispatch decoder is used
    frames,     \* the frames the stream was built from, in order
    stream,     \* the bytes of the stream (a Cursor over a Vec<u8>)
    spos,       \* the Cursor's position
    calls,      \* one record per decoder call made so far
    \* ---- blocking and cooperative adapters over a socket (SpecConn) ----
    adapter,    \* "Backend" | "Frontend" | "AsyncBackend"
    sock,       \* every byte the peer sends before it closes, in socket order
    arrived,    \* how many of them have reached the receive buffer
    sent,       \* the frames sock was built from, in order
    rpos,       \* how many of them have been read (shared by all clones)
    apos,       \* the cooperative adapter's read position on the same bytes
    iters,      \* the message sequences handed out so far: [kind, finished]
    pulls,      \* one record per pull made so far
    aborted,    \* TRUE once a panic has unwound the thread
    dropped,    \* TRUE once the adapter value has been dropped
    \* ---- programs and tasks that use the adapters ----
    tasks,      \* the position of each task (or of main) and its locals
    gates,      \* the tasks that hold the read-half and the write-half Mutex
    out         \* what has been written to the sockets, in order

vars == <<cpc, msg, wire, decoded, role, frames, stream, spos, calls,
          adapter, sock, sent, arrived, rpos, apos, iters, pulls, aborted, dropped,
          tasks, gates, out>>

codecVars == <<cpc, msg, wire, decoded>>
streamVars == <<role, frames, stream, spos, calls>>
connVars == <<adapter, sock, sent, arrived, rpos, apos, iters, pulls, aborted, dropped>>
appVars == <<tasks, gates, out>>

(***************************************************************************)
(* Bounds of the model.                                                    *)
(***************************************************************************)
\* Longest string held by a message value of the round-trip check.
MaxStrLen == 1
\* Most fields of a RowDescription or DataRow, most parameters of a Startup.
MaxFields == 2
\* Most frames concatenated into one stream.
MaxFrames == 2
\* Most message sequences handed out by one adapter.
MaxIters == 2
\* Most pulls made on one connection.
MaxPulls == 4

\* The number of calls made on one Startup value before it is encoded.
MaxOps == 3

(***************************************************************************)
(* Wire constants.                                                         *)
(***************************************************************************)
TagZ == 90
TagT == 84
TagD == 68
Tagn == 110
TagC == 67
TagI == 73
TagE == 69
TagN == 78
TagQ == 81
TagX == 88
TagR == 82
TagS == 83
TagK == 75
TagV == 86
TagM == 77
TagF == 70
TagL == 76
StatusT == 84
StatusE == 69
SSL_MAJOR == 1234
SSL_MINOR == 5679
CANCEL_MINOR == 5678
PROTO_MAJOR == 3
PROTO_MINOR == 0

\* "WARNING", "NOTICE", "DEBUG", "INFO", "LOG" as bytes.
StrWARNING == <<87, 65, 82, 78, 73, 78, 71>>
StrNOTICE == <<78, 79, 84, 73, 67, 69>>
StrDEBUG == <<68, 69, 66, 85, 71>>
StrINFO == <<73, 78, 70, 79>>
StrLOG == <<76, 79, 71>>

(***************************************************************************)
(* Integers on the wire (to_be_bytes / from_be_bytes).                     *)
(***************************************************************************)
Min(a, b) == IF a < b THEN a ELSE b

\* u16::to_be_bytes
U16(n) == <<(n \div 256) % 256, n % 256>>

\* u32::to_be_bytes
U32(n) == <<(n \div 16777216) % 256, (n \div 65536) % 256, (n \div 256) % 256, n % 256>>

\* u16::from_be_bytes of b[i], b[i+1]
BE16(b, i) == b[i] * 256 + b[i + 1]

\* u32::from_be_bytes of b[i..i+3].  A value of 2^31 or more is beyond the
\* 32-bit integers the model is evaluated with; it is only ever used as a byte
\* count that exceeds every buffer of the model, so it is held as the largest
\* count available.
\* (The DataRow NULL marker 0xFFFFFFFF is recognised on its four bytes.)
BE32(b, i) ==
    IF b[i] >= 128 THEN 2147483647
    ELSE b[i] * 16777216 + b[i + 1] * 65536 + b[i + 2] * 256 + b[i + 3]

\* String::from_utf8 / str::from_utf8 succeed.  Every byte below 0x80 is a
\* one-byte code point; the only bytes of 0x80 and above that the model puts in
\* a string are 0xFE and 0xFF, which occur in no UTF-8 encoding.
IsUtf8(b) == \A i \in 1..Len(b) : b[i] < 128

(***************************************************************************)
(* readers.rs: each reader returns [res, val, pos].                        *)
(***************************************************************************)
NoVal == <<>>

ROk(v, p) == [res |-> "Ok", val |-> v, pos |-> p]

\* read_exact met the end of the input: the bytes that were left are consumed.
REof(b) == [res |-> "Err", val |-> NoVal, pos |-> Len(b)]

RErr(p) == [res |-> "Err", val |-> NoVal, pos |-> p]

read_u8(b, p) ==
    IF Len(b) - p < 1 THEN REof(b) ELSE ROk(b[p + 1], p + 1)

read_u16(b, p) ==
    IF Len(b) - p < 2 THEN REof(b) ELSE ROk(BE16(b, p + 1), p + 2)

read_u32(b, p) ==
    IF Len(b) - p < 4 THEN REof(b) ELSE ROk(BE32(b, p + 1), p + 4)

read_bytes(n, b, p) ==
    IF Len(b) - p < n THEN REof(b) ELSE ROk(SubSeq(b, p + 1, p + n), p + n)

\* Index of the first NUL after position p, or 0 when there is none.
FirstNul(b, p) ==
    LET Z == {i \in (p + 1)..Len(b) : b[i] = 0}
    IN IF Z = {} THEN 0 ELSE CHOOSE i \in Z : \A j \in Z : i <= j

read_string(b, p) ==
    LET z == FirstNul(b, p)
    IN IF z = 0 THEN REof(b)
       ELSE LET s == SubSeq(b, p + 1, z - 1)
            IN IF IsUtf8(s) THEN ROk(s, z) ELSE RErr(z)

(***************************************************************************)
(* Message values.  A value is a record whose kind names the variant.      *)
(***************************************************************************)
NoMsg == [kind |-> "none"]

\* state.rs: enum TransactionStatus
TransactionStatus == {"Unknown", "Idle", "InTransaction", "InFailedTransaction"}

\* Option<String>
Some(s) == [some |-> TRUE, value |-> s]

None == [some |-> FALSE, value |-> <<>>]

\* row_description.rs: struct Field
Field(name, table_oid, column_index, data_type_oid, data_type_size, type_modifier, format_code) ==
    [name |-> name, table_oid |-> table_oid, column_index |-> column_index,
     data_type_oid |-> data_type_oid, data_type_size |-> data_type_size,
     type_modifier |-> type_modifier, format_code |-> format_code]

\* A string field described with the OID of the text type.
string_field_text(name) == Field(name, 0, 0, 25, 0, 0, 0)

\* RowDescriptionBuilder::string_field: every attribute but the name is zero.
string_field(name) == Field(name, 0, 0, 0, 0, 0, 0)

\* notice_message.rs: enum Severity
Severity(tag, text) == [tag |-> tag, text |-> text]

SimpleQuery(q) == [kind |-> "SimpleQuery", query |-> q]

Termination == [kind |-> "Termination"]

ReadyForQuery(st) == [kind |-> "ReadyForQuery", transaction_status |-> st]

RowDescription(fs) == [kind |-> "RowDescription", fields |-> fs]

DataRow(fs) == [kind |-> "DataRow", fields |-> fs]

NoData == [kind |-> "NoData"]

CommandComplete(tag) == [kind |-> "CommandComplete", tag |-> tag]

EmptyQueryResponse == [kind |-> "EmptyQueryResponse"]

NoticeMessage(sev, code, message) ==
    [kind |-> "NoticeMessage", severity |-> sev, code |-> code, message |-> message]

ErrorMsg(length) == [kind |-> "Error", length |-> length]

SSLRequest == [kind |-> "SSLRequest"]

CancelRequest(pid, key) == [kind |-> "CancelRequest", process_id |-> pid, secret_key |-> key]

Authentication == [kind |-> "Authentication", auth |-> "Ok"]

ParameterStatus(n, v) == [kind |-> "ParameterStatus", name |-> n, value |-> v]

BackendKeyData(pid, key) == [kind |-> "BackendKeyData", process_id |-> pid, secret_key |-> key]

SSLResponse(c) == [kind |-> "SSLResponse", answer |-> c]

\* Startup::default / Startup::new: length 4 + 4 + 1, protocol 3.0, no parameters.
Startup_new ==
    [kind |-> "Startup", length |-> 4 + 4 + 1,
     protocol_major_version |-> PROTO_MAJOR, protocol_minor_version |-> PROTO_MINOR,
     parameters |-> <<>>]

\* add_parameter that counts the key's terminator and forgets the value's.
add_parameter_short(st, key, value) ==
    [st EXCEPT !.parameters = Append(@, <<key, value>>),
               !.length = @ + (Len(key) + 1) + Len(value)]

\* Startup::add_parameter
add_parameter(st, key, value) ==
    [st EXCEPT !.parameters = Append(@, <<key, value>>),
               !.length = @ + (Len(key) + 1) + (Len(value) + 1)]

(***************************************************************************)
(* Message::encode.  An encoder returns [res, bytes]; res is "Panic" when  *)
(* the encoder panics instead of returning.                                *)
(***************************************************************************)
EOk(b) == [res |-> "Ok", bytes |-> b]

EPanic == [res |-> "Panic", bytes |-> <<>>]

RECURSIVE Concat(_)
\* The concatenation of a sequence of byte strings.
Concat(ss) == IF ss = <<>> THEN <<>> ELSE Head(ss) \o Concat(Tail(ss))

\* to_u8 with a byte for every variant: Unknown written as 'U'.
TransactionStatus_to_u8_total(st) ==
    CASE st = "Idle" -> EOk(<<TagI>>)
      [] st = "InTransaction" -> EOk(<<StatusT>>)
      [] st = "InFailedTransaction" -> EOk(<<StatusE>>)
      [] OTHER -> EOk(<<85>>)

\* TransactionStatus::to_u8 panics on Unknown.
TransactionStatus_to_u8(st) ==
    CASE st = "Idle" -> EOk(<<TagI>>)
      [] st = "InTransaction" -> EOk(<<StatusT>>)
      [] st = "InFailedTransaction" -> EOk(<<StatusE>>)
      [] OTHER -> EPanic

ReadyForQuery_encode(m) ==
    LET s == TransactionStatus_to_u8(m.transaction_status)
    IN IF s.res = "Panic" THEN EPanic ELSE EOk(<<TagZ>> \o U32(5) \o s.bytes)

Field_bytes(f) ==
    f.name \o <<0>> \o U32(f.table_oid) \o U16(f.column_index) \o U32(f.data_type_oid)
        \o U16(f.data_type_size) \o U32(f.type_modifier) \o U16(f.format_code)

RowDescription_encode(m) ==
    LET field_buffer == Concat([i \in 1..Len(m.fields) |-> Field_bytes(m.fields[i])])
    IN EOk(<<TagT>> \o U32(Len(field_buffer) + 4 + 2) \o U16(Len(m.fields)) \o field_buffer)

\* A None field written as a string of length 0.
DataField_bytes_empty(f) ==
    IF f.some THEN U32(Len(f.value)) \o f.value ELSE U32(0)

DataField_bytes(f) ==
    IF f.some THEN U32(Len(f.value)) \o f.value ELSE <<255, 255, 255, 255>>

DataRow_encode(m) ==
    LET field_buffer == Concat([i \in 1..Len(m.fields) |-> DataField_bytes(m.fields[i])])
    IN EOk(<<TagD>> \o U32(Len(field_buffer) + 4 + 2) \o U16(Len(m.fields)) \o field_buffer)

NoData_encode == EOk(<<Tagn>> \o U32(4))

EmptyQueryResponse_encode == EOk(<<TagI>> \o U32(4))

CommandComplete_encode(m) ==
    LET tag_bytes == m.tag \o <<0>>
    IN EOk(<<TagC>> \o U32(4 + Len(tag_bytes)) \o tag_bytes)

Severity_encode(sev) ==
    <<TagS>> \o (CASE sev.tag = "Warning" -> StrWARNING
                   [] sev.tag = "Notice" -> StrNOTICE
                   [] sev.tag = "Debug" -> StrDEBUG
                   [] sev.tag = "Info" -> StrINFO
                   [] sev.tag = "Log" -> StrLOG
                   [] OTHER -> sev.text) \o <<0>>

NoticeMessage_encode(m) ==
    LET inner == Severity_encode(m.severity) \o <<TagC>> \o m.code \o <<0>>
                     \o <<TagM>> \o m.message \o <<0>>
    IN EOk(<<TagN>> \o U32(Len(inner) + 4 + 1) \o inner \o <<0>>)

\* BackendMessage::Error { length }: the type byte and the stored length, no payload.
Error_encode(m) == EOk(<<TagE>> \o U32(m.length))

SimpleQuery_encode(m) == EOk(<<TagQ>> \o U32(Len(m.query) + 4 + 1) \o m.query \o <<0>>)

Termination_encode == EOk(<<TagX>> \o U32(4))

SSLRequest_encode == EOk(U32(8) \o U16(SSL_MAJOR) \o U16(SSL_MINOR))

RECURSIVE Parameter_bytes(_)
Parameter_bytes(ps) ==
    IF ps = <<>> THEN <<>>
    ELSE Head(ps)[1] \o <<0>> \o Head(ps)[2] \o <<0>> \o Parameter_bytes(Tail(ps))

\* Startup::encode writes the stored length field.
Startup_encode(m) ==
    EOk(U32(m.length) \o U16(m.protocol_major_version) \o U16(m.protocol_minor_version)
            \o Parameter_bytes(m.parameters) \o <<0>>)

CancelRequest_encode(m) ==
    EOk(U32(16) \o U16(SSL_MAJOR) \o U16(CANCEL_MINOR) \o U32(m.process_id) \o U32(m.secret_key))

Authentication_encode == EOk(<<TagR>> \o U32(8) \o U32(0))

ParameterStatus_encode(m) ==
    EOk(<<TagS>> \o U32(4 + Len(m.name) + 1 + Len(m.value) + 1)
            \o m.name \o <<0>> \o m.value \o <<0>>)

BackendKeyData_encode(m) ==
    EOk(<<TagK>> \o U32(12) \o U32(m.process_id) \o U32(m.secret_key))

SSLResponse_encode(m) == EOk(<<m.answer>>)

\* impl Message for FrontendMessage / BackendMessage / StartupRequest /
\* StartupResponse / SSLResponse / NoticeMessage: dispatch on the variant.
encode(m) ==
    CASE m.kind = "SimpleQuery" -> SimpleQuery_encode(m)
      [] m.kind = "Termination" -> Termination_encode
      [] m.kind = "ReadyForQuery" -> ReadyForQuery_encode(m)
      [] m.kind = "RowDescription" -> RowDescription_encode(m)
      [] m.kind = "DataRow" -> DataRow_encode(m)
      [] m.kind = "NoData" -> NoData_encode
      [] m.kind = "CommandComplete" -> CommandComplete_encode(m)
      [] m.kind = "EmptyQueryResponse" -> EmptyQueryResponse_encode
      [] m.kind = "NoticeMessage" -> NoticeMessage_encode(m)
      [] m.kind = "Error" -> Error_encode(m)
      [] m.kind = "SSLRequest" -> SSLRequest_encode
      [] m.kind = "Startup" -> Startup_encode(m)
      [] m.kind = "CancelRequest" -> CancelRequest_encode(m)
      [] m.kind = "Authentication" -> Authentication_encode
      [] m.kind = "ParameterStatus" -> ParameterStatus_encode(m)
      [] m.kind = "BackendKeyData" -> BackendKeyData_encode(m)
      [] m.kind = "SSLResponse" -> SSLResponse_encode(m)

(***************************************************************************)
(* Payload parsers.  Each reads a frame's payload, already copied into a   *)
(* scratch buffer, from the buffer's start and returns [res, msg]:         *)
(* "Ok" with the message, "Err" (an error value), or "Panic".              *)
(***************************************************************************)
POk(m) == [res |-> "Ok", msg |-> m]

PErr == [res |-> "Err", msg |-> NoMsg]

PPanic == [res |-> "Panic", msg |-> NoMsg]

\* TransactionStatus::from_u8: any byte but I, T, E panics.
TransactionStatus_from_u8(value) ==
    CASE value = TagI -> "Idle"
      [] value = StatusT -> "InTransaction"
      [] value = StatusE -> "InFailedTransaction"
      [] OTHER -> "Panic"

\* ReadyForQuery::read_next_message (backend/ready_for_query.rs and state.rs)
ReadyForQuery_read_next_message(buf) ==
    LET r == read_u8(buf, 0)
    IN IF r.res # "Ok" THEN PErr
       ELSE LET st == TransactionStatus_from_u8(r.val)
            IN IF st = "Panic" THEN PPanic ELSE POk(ReadyForQuery(st))

\* One Field of a RowDescription at position p: [res, val, pos].
Field_read(buf, p) ==
    LET n == read_string(buf, p) IN
    IF n.res # "Ok" THEN RErr(n.pos) ELSE
    LET a == read_u32(buf, n.pos) IN
    IF a.res # "Ok" THEN RErr(a.pos) ELSE
    LET b == read_u16(buf, a.pos) IN
    IF b.res # "Ok" THEN RErr(b.pos) ELSE
    LET c == read_u32(buf, b.pos) IN
    IF c.res # "Ok" THEN RErr(c.pos) ELSE
    LET d == read_u16(buf, c.pos) IN
    IF d.res # "Ok" THEN RErr(d.pos) ELSE
    LET e == read_u32(buf, d.pos) IN
    IF e.res # "Ok" THEN RErr(e.pos) ELSE
    LET f == read_u16(buf, e.pos) IN
    IF f.res # "Ok" THEN RErr(f.pos) ELSE
    ROk(Field(n.val, a.val, b.val, c.val, d.val, e.val, f.val), f.pos)

RECURSIVE RowDescription_fields(_, _, _, _)
\* The loop of RowDescription::read_next_message: n fields left, acc read so far.
RowDescription_fields(buf, p, n, acc) ==
    IF n = 0 THEN POk(RowDescription(acc))
    ELSE LET f == Field_read(buf, p)
         IN IF f.res # "Ok" THEN PErr
            ELSE RowDescription_fields(buf, f.pos, n - 1, Append(acc, f.val))

RowDescription_read_next_message(buf) ==
    LET c == read_u16(buf, 0)
    IN IF c.res # "Ok" THEN PErr ELSE RowDescription_fields(buf, c.pos, c.val, <<>>)

RECURSIVE DataRow_fields(_, _, _, _)
\* The loop of DataRow::read_next_message.  A length slot of 0xFFFFFFFF leaves
\* the field None; any other length is read as that many bytes of UTF-8.
DataRow_fields(buf, p, n, acc) ==
    IF n = 0 THEN POk(DataRow(acc))
    ELSE LET l == read_u32(buf, p)
         IN IF l.res # "Ok" THEN PErr
            ELSE IF SubSeq(buf, p + 1, p + 4) = <<255, 255, 255, 255>>
                 THEN DataRow_fields(buf, l.pos, n - 1, Append(acc, None))
                 ELSE LET v == read_bytes(l.val, buf, l.pos)
                      IN IF v.res # "Ok" \/ ~IsUtf8(v.val) THEN PErr
                         ELSE DataRow_fields(buf, v.pos, n - 1, Append(acc, Some(v.val)))

DataRow_read_next_message(buf) ==
    LET c == read_u16(buf, 0)
    IN IF c.res # "Ok" THEN PErr ELSE DataRow_fields(buf, c.pos, c.val, <<>>)

NoData_read_next_message(buf) == POk(NoData)

EmptyQueryResponse_read_next_message(buf) == POk(EmptyQueryResponse)

CommandComplete_read_next_message(buf) ==
    LET t == read_string(buf, 0)
    IN IF t.res # "Ok" THEN PErr ELSE POk(CommandComplete(t.val))

SimpleQuery_read_next_message(buf) ==
    LET q == read_string(buf, 0)
    IN IF q.res # "Ok" THEN PErr ELSE POk(SimpleQuery(q.val))

\* Severity::read_next_message and the 'V' arm of NoticeMessage::read_next_message
Severity_from_text(value) ==
    CASE value = StrWARNING -> Severity("Warning", <<>>)
      [] value = StrNOTICE -> Severity("Notice", <<>>)
      [] value = StrDEBUG -> Severity("Debug", <<>>)
      [] value = StrINFO -> Severity("Info", <<>>)
      [] value = StrLOG -> Severity("Log", <<>>)
      [] OTHER -> Severity("Localized", value)

RECURSIVE NoticeMessage_loop(_, _, _)
\* The loop of NoticeMessage::read_next_message; b is the builder so far.  An
\* unknown field tag that is not UTF-8 on its own is an error.
NoticeMessage_loop(buf, p, b) ==
    LET t == read_u8(buf, p) IN
    IF t.res # "Ok" THEN PErr
    ELSE IF t.val = 0 THEN POk(NoticeMessage(b.severity, b.code, b.message))
    ELSE IF t.val >= 128 THEN PErr
    ELSE LET v == read_string(buf, t.pos) IN
         IF v.res # "Ok" THEN PErr
         ELSE NoticeMessage_loop(buf, v.pos,
                  CASE t.val = TagS \/ t.val = TagV ->
                           [b EXCEPT !.severity = Severity_from_text(v.val)]
                    [] t.val = TagC -> [b EXCEPT !.code = v.val]
                    [] t.val = TagM -> [b EXCEPT !.message = v.val]
                    [] OTHER -> b)

\* NoticeMessageBuilder::new and build: absent fields default to Warning and "".
NoticeMessage_read_next_message(buf) ==
    NoticeMessage_loop(buf, 0,
        [severity |-> Severity("Warning", <<>>), code |-> <<>>, message |-> <<>>])

\* read_next_message accepting every authentication code.
Authentication_read_next_message_any(buf) ==
    LET t == read_u32(buf, 0)
    IN IF t.res # "Ok" THEN PErr ELSE POk(Authentication)

\* Authentication::read_next_message: only code 0 is supported.
Authentication_read_next_message(buf) ==
    LET t == read_u32(buf, 0)
    IN IF t.res # "Ok" THEN PErr
       ELSE IF t.val = 0 THEN POk(Authentication) ELSE PErr

ParameterStatus_read_next_message(buf) ==
    LET n == read_string(buf, 0) IN
    IF n.res # "Ok" THEN PErr
    ELSE LET v == read_string(buf, n.pos)
         IN IF v.res # "Ok" THEN PErr ELSE POk(ParameterStatus(n.val, v.val))

BackendKeyData_read_next_message(buf) ==
    LET a == read_u32(buf, 0) IN
    IF a.res # "Ok" THEN PErr
    ELSE LET b == read_u32(buf, a.pos)
         IN IF b.res # "Ok" THEN PErr ELSE POk(BackendKeyData(a.val, b.val))

RECURSIVE Startup_parameters(_, _, _)
\* The key/value loop shared by StartupRequest::read_next_message and
\* Startup::read_next_message: it stops at the first empty key.
Startup_parameters(buf, p, st) ==
    LET k == read_string(buf, p) IN
    IF k.res # "Ok" THEN PErr
    ELSE IF k.val = <<>> THEN POk(st)
    ELSE LET v == read_string(buf, k.pos)
         IN IF v.res # "Ok" THEN PErr
            ELSE Startup_parameters(buf, v.pos, add_parameter(st, k.val, v.val))

(***************************************************************************)
(* Variant-dispatch decoders.  Each reads one message from the byte        *)
(* string s at position p and returns [res, msg, pos]: res is "Ok" (a      *)
(* message), "None" (Ok(None)), "Err" (an error value) or "Panic"; pos is  *)
(* the position the reader is left at.                                     *)
(***************************************************************************)
Out(res, m, p) == [res |-> res, msg |-> m, pos |-> p]

\* The outcome of a payload parser, with the reader left at position p.
Lift(r, p) == Out(r.res, r.msg, p)

\* BackendMessage::read_next_message (backend/mod.rs).  k is the number of
\* bytes the single read() call for the 5-byte header returned.  The 'E' arm
\* reads length - 4 bytes from the stream again, after the payload was already
\* read into the scratch buffer.
BackendMessage_read_next_message(s, p, k) ==
    IF k # 5 THEN Out("Err", NoMsg, p + k) ELSE
    LET type == s[p + 1]
        length == BE32(s, p + 2)
    IN IF length < 4 THEN Out("Panic", NoMsg, p + 5) ELSE
       LET b == read_bytes(length - 4, s, p + 5) IN
       IF b.res # "Ok" THEN Out("Err", NoMsg, b.pos) ELSE
       LET buffer == b.val IN
       CASE type = TagZ -> Lift(ReadyForQuery_read_next_message(buffer), b.pos)
         [] type = TagT -> Lift(RowDescription_read_next_message(buffer), b.pos)
         [] type = TagD -> Lift(DataRow_read_next_message(buffer), b.pos)
         [] type = Tagn -> Lift(NoData_read_next_message(buffer), b.pos)
         [] type = TagC -> Lift(CommandComplete_read_next_message(buffer), b.pos)
         [] type = TagI -> Lift(EmptyQueryResponse_read_next_message(buffer), b.pos)
         [] type = TagE ->
                LET again == read_bytes(length - 4, s, b.pos)
                IN IF again.res # "Ok" THEN Out("Err", NoMsg, again.pos)
                   ELSE Out("Ok", ErrorMsg(length), again.pos)
         [] OTHER -> Out("Err", NoMsg, b.pos)

\* FrontendMessage::read_next_message (messages/frontend.rs).  The 'X' arm
\* asserts length == 4.
FrontendMessage_read_next_message(s, p, k) ==
    IF k # 5 THEN Out("Err", NoMsg, p + k) ELSE
    LET type == s[p + 1]
        length == BE32(s, p + 2)
    IN IF length < 4 THEN Out("Panic", NoMsg, p + 5) ELSE
       LET b == read_bytes(length - 4, s, p + 5) IN
       IF b.res # "Ok" THEN Out("Err", NoMsg, b.pos) ELSE
       CASE type = TagQ -> Lift(SimpleQuery_read_next_message(b.val), b.pos)
         [] type = TagX -> IF length = 4 THEN Out("Ok", Termination, b.pos)
                           ELSE Out("Panic", NoMsg, b.pos)
         [] OTHER -> Out("Err", NoMsg, b.pos)

\* The body shared by StartupResponse::read_next_message and
\* read_next_message_async; unknown is what an unrecognised type byte gives.
StartupResponse_dispatch(s, p, unknown) ==
    LET t == read_u8(s, p) IN
    IF t.res # "Ok" THEN Out("Err", NoMsg, t.pos) ELSE
    LET l == read_u32(s, t.pos) IN
    IF l.res # "Ok" THEN Out("Err", NoMsg, l.pos) ELSE
    IF l.val < 4 THEN Out("Panic", NoMsg, l.pos) ELSE
    LET b == read_bytes(l.val - 4, s, l.pos) IN
    IF b.res # "Ok" THEN Out("Err", NoMsg, b.pos) ELSE
    CASE t.val = TagR -> Lift(Authentication_read_next_message(b.val), b.pos)
      [] t.val = TagS -> Lift(ParameterStatus_read_next_message(b.val), b.pos)
      [] t.val = TagK -> Lift(BackendKeyData_read_next_message(b.val), b.pos)
      [] t.val = TagZ -> Lift(ReadyForQuery_read_next_message(b.val), b.pos)
      [] OTHER -> Out(unknown, NoMsg, b.pos)

\* StartupResponse::read_next_message: an unrecognised type byte is Ok(None).
StartupResponse_read_next_message(s, p) == StartupResponse_dispatch(s, p, "None")

\* StartupResponse::read_next_message_async: an unrecognised type byte is Err.
StartupResponse_read_next_message_async(s, p) == StartupResponse_dispatch(s, p, "Err")

\* StartupRequest::read_next_message: dispatch on (length, major, minor).
StartupRequest_read_next_message(s, p) ==
    LET l == read_u32(s, p) IN
    IF l.res # "Ok" THEN Out("Err", NoMsg, l.pos) ELSE
    LET ma == read_u16(s, l.pos) IN
    IF ma.res # "Ok" THEN Out("Err", NoMsg, ma.pos) ELSE
    LET mi == read_u16(s, ma.pos) IN
    IF mi.res # "Ok" THEN Out("Err", NoMsg, mi.pos) ELSE
    IF l.val < 8 THEN Out("Panic", NoMsg, mi.pos) ELSE
    LET b == read_bytes(l.val - 8, s, mi.pos) IN
    IF b.res # "Ok" THEN Out("Err", NoMsg, b.pos) ELSE
    CASE l.val = 8 /\ ma.val = SSL_MAJOR /\ mi.val = SSL_MINOR -> Out("Ok", SSLRequest, b.pos)
      [] l.val = 16 /\ ma.val = SSL_MAJOR /\ mi.val = CANCEL_MINOR ->
             Lift(LET r == BackendKeyData_read_next_message(b.val)
                  IN IF r.res # "Ok" THEN r
                     ELSE POk(CancelRequest(r.msg.process_id, r.msg.secret_key)), b.pos)
      [] ma.val = PROTO_MAJOR /\ mi.val = PROTO_MINOR ->
             Lift(Startup_parameters(b.val, 0, Startup_new), b.pos)
      [] OTHER -> Out("Panic", NoMsg, b.pos)

\* Startup::read_next_message: asserts protocol 3.0 before reading the payload.
Startup_read_next_message(s, p) ==
    LET l == read_u32(s, p) IN
    IF l.res # "Ok" THEN Out("Err", NoMsg, l.pos) ELSE
    LET ma == read_u16(s, l.pos) IN
    IF ma.res # "Ok" THEN Out("Err", NoMsg, ma.pos) ELSE
    LET mi == read_u16(s, ma.pos) IN
    IF mi.res # "Ok" THEN Out("Err", NoMsg, mi.pos) ELSE
    IF ma.val # PROTO_MAJOR \/ mi.val # PROTO_MINOR THEN Out("Panic", NoMsg, mi.pos) ELSE
    IF l.val < 8 THEN Out("Panic", NoMsg, mi.pos) ELSE
    LET b == read_bytes(l.val - 8, s, mi.pos) IN
    IF b.res # "Ok" THEN Out("Err", NoMsg, b.pos)
    ELSE Lift(Startup_parameters(b.val, 0, Startup_new), b.pos)

\* SSLRequest::read_next_message: asserts the protocol constants 1234, 5679.
SSLRequest_read_next_message(s, p) ==
    LET l == read_u32(s, p) IN
    IF l.res # "Ok" THEN Out("Err", NoMsg, l.pos) ELSE
    IF l.val < 4 THEN Out("Panic", NoMsg, l.pos) ELSE
    LET b == read_bytes(l.val - 4, s, l.pos) IN
    IF b.res # "Ok" THEN Out("Err", NoMsg, b.pos) ELSE
    LET ma == read_u16(b.val, 0) IN
    IF ma.res # "Ok" THEN Out("Err", NoMsg, b.pos) ELSE
    LET mi == read_u16(b.val, ma.pos) IN
    IF mi.res # "Ok" THEN Out("Err", NoMsg, b.pos) ELSE
    IF ma.val # SSL_MAJOR \/ mi.val # SSL_MINOR THEN Out("Panic", NoMsg, b.pos)
    ELSE Out("Ok", SSLRequest, b.pos)

\* SSLResponse::read_next_message: one byte, S or N.
SSLResponse_read_next_message(s, p) ==
    LET t == read_u8(s, p) IN
    IF t.res # "Ok" THEN Out("Err", NoMsg, t.pos)
    ELSE IF t.val = TagS \/ t.val = TagN THEN Out("Ok", SSLResponse(t.val), t.pos)
    ELSE Out("Err", NoMsg, t.pos)

\* Cursor::read into a buffer of n bytes: as many as are left, at most n.
Cursor_read(s, p, n) == Min(n, Len(s) - p)

(***************************************************************************)
(* The message values of the round-trip check.                             *)
(***************************************************************************)
\* The bytes message strings are made of: 'A' and 'B'.
StrBytes == {65, 66}

Strs == UNION {[1..n -> StrBytes] : n \in 0..MaxStrLen}

\* Values of u32 fields.
U32Vals == {0, 1, 305419896}

SeqsUpTo(S, n) == UNION {[1..k -> S] : k \in 0..n}

FieldVals == {string_field(n) : n \in Strs} \cup {Field(n, 70000, 2, 23, 4, 1, 1) : n \in Strs}

SeverityVals ==
    {Severity(t, <<>>) : t \in {"Warning", "Notice", "Debug", "Info", "Log"}}
        \cup {Severity("Localized", t) : t \in Strs}

\* Startup values built by Startup::new and add_parameter.
RECURSIVE Startup_with(_)
Startup_with(ps) ==
    IF ps = <<>> THEN Startup_new
    ELSE add_parameter(Startup_with(SubSeq(ps, 1, Len(ps) - 1)),
                       ps[Len(ps)][1], ps[Len(ps)][2])

FrontendMessages == {SimpleQuery(q) : q \in Strs} \cup {Termination}

BackendMessages ==
    {ReadyForQuery(st) : st \in TransactionStatus}
        \cup {RowDescription(fs) : fs \in SeqsUpTo(FieldVals, MaxFields)}
        \cup {DataRow(fs) : fs \in SeqsUpTo({None} \cup {Some(v) : v \in Strs}, MaxFields)}
        \cup {NoData, EmptyQueryResponse}
        \cup {CommandComplete(t) : t \in Strs}
        \cup {NoticeMessage(sv, c, m) : sv \in SeverityVals, c \in Strs, m \in Strs}
        \cup {ErrorMsg(l) : l \in {4, 5, 8}}

StartupRequests ==
    {SSLRequest}
        \cup {Startup_with(ps) : ps \in SeqsUpTo(Strs \X Strs, MaxFields)}
        \cup {CancelRequest(a, b) : a \in U32Vals, b \in U32Vals}

StartupResponses ==
    {Authentication}
        \cup {ParameterStatus(n, v) : n \in Strs, v \in Strs}
        \cup {BackendKeyData(a, b) : a \in U32Vals, b \in U32Vals}
        \cup {ReadyForQuery(st) : st \in TransactionStatus}

SSLResponses == {SSLResponse(TagS), SSLResponse(TagN)}

\* A message value with the variant group it belongs to.
Grouped(g, M) == {[group |-> g, val |-> m] : m \in M}

AllMessages ==
    Grouped("FrontendMessage", FrontendMessages)
        \cup Grouped("BackendMessage", BackendMessages)
        \cup Grouped("StartupRequest", StartupRequests)
        \cup Grouped("StartupResponse", StartupResponses)
        \cup Grouped("SSLResponse", SSLResponses)

(***************************************************************************)
(* SpecCodec: a message value is chosen, encoded, and the bytes are fed to *)
(* the variant-dispatch decoder of its group through a Cursor.             *)
(***************************************************************************)
NoWire == EOk(<<>>)

NoOut == Out("None", NoMsg, 0)

StreamIdle ==
    /\ role = "none" /\ frames = <<>> /\ stream = <<>> /\ spos = 0 /\ calls = <<>>

ConnIdle ==
    /\ adapter = "none" /\ sock = <<>> /\ sent = <<>> /\ arrived = 0 /\ rpos = 0
    /\ apos = 0 /\ iters = <<>> /\ pulls = <<>> /\ aborted = FALSE /\ dropped = FALSE

AppIdle ==
    /\ tasks = <<>> /\ gates = <<>> /\ out = <<>>

CodecIdle ==
    /\ cpc = "idle" /\ msg = [group |-> "none", val |-> NoMsg]
    /\ wire = NoWire /\ decoded = NoOut

InitCodec ==
    /\ cpc = "chosen"
    /\ msg \in AllMessages
    /\ wire = NoWire
    /\ decoded = NoOut
    /\ StreamIdle
    /\ ConnIdle
    /\ AppIdle

\* m.encode()
Encode ==
    /\ cpc = "chosen"
    /\ wire' = encode(msg.val)
    /\ cpc' = "encoded"
    /\ UNCHANGED <<msg, decoded, streamVars, connVars, appVars>>

\* The decoder's call on a Cursor over the encoded bytes; a panicking encoder
\* produced no bytes to decode.
CanDecode(g) == cpc = "encoded" /\ wire.res = "Ok" /\ msg.group = g

DecodeFrontend ==
    /\ CanDecode("FrontendMessage")
    /\ decoded' = FrontendMessage_read_next_message(wire.bytes, 0, Cursor_read(wire.bytes, 0, 5))
    /\ cpc' = "decoded"
    /\ UNCHANGED <<msg, wire, streamVars, connVars, appVars>>

DecodeBackend ==
    /\ CanDecode("BackendMessage")
    /\ decoded' = BackendMessage_read_next_message(wire.bytes, 0, Cursor_read(wire.bytes, 0, 5))
    /\ cpc' = "decoded"
    /\ UNCHANGED <<msg, wire, streamVars, connVars, appVars>>

DecodeStartupRequest ==
    /\ CanDecode("StartupRequest")
    /\ decoded' = StartupRequest_read_next_message(wire.bytes, 0)
    /\ cpc' = "decoded"
    /\ UNCHANGED <<msg, wire, streamVars, connVars, appVars>>

DecodeStartupResponse ==
    /\ CanDecode("StartupResponse")
    /\ decoded' = StartupResponse_read_next_message(wire.bytes, 0)
    /\ cpc' = "decoded"
    /\ UNCHANGED <<msg, wire, streamVars, connVars, appVars>>

DecodeSSLResponse ==
    /\ CanDecode("SSLResponse")
    /\ decoded' = SSLResponse_read_next_message(wire.bytes, 0)
    /\ cpc' = "decoded"
    /\ UNCHANGED <<msg, wire, streamVars, connVars, appVars>>

NextCodec ==
    \/ Encode
    \/ DecodeFrontend
    \/ DecodeBackend
    \/ DecodeStartupRequest
    \/ DecodeStartupResponse
    \/ DecodeSSLResponse

SpecCodec == InitCodec /\ [][NextCodec]_vars

\* Whether the encoded message carries a leading type byte.
HasTypeByte == msg.group \in {"FrontendMessage", "BackendMessage", "StartupResponse"}

\* C1: round trip. For every message value of every variant, encode returns
\* bytes, and the variant-dispatch decoder of the value's group, fed those
\* bytes, returns a value equal to the one encoded.
C1_RoundTrip ==
    /\ cpc = "encoded" => wire.res = "Ok"
    /\ cpc = "decoded" => decoded.res = "Ok" /\ decoded.msg = msg.val

\* C2: length field integrity. The encoding of a message with a leading type
\* byte holds len(encoded) - 1 as a big-endian u32 at offset 1; the encoding of
\* a pre-startup message (SSLRequest, Startup, CancelRequest) holds len(encoded)
\* as a big-endian u32 at offset 0.
C2_LengthField ==
    (cpc \in {"encoded", "decoded"} /\ wire.res = "Ok") =>
        /\ HasTypeByte => BE32(wire.bytes, 2) = Len(wire.bytes) - 1
        /\ msg.group = "StartupRequest" => BE32(wire.bytes, 1) = Len(wire.bytes)

(***************************************************************************)
(* Frames put on a stream.  A frame is [bytes, msg, class, L]:             *)
(*   "encoded"   the bytes are encode(msg);                                *)
(*   "error"     an Error frame as a server sends it: 'E', the length L    *)
(*               and L - 4 bytes of payload; msg is Error { length: L };   *)
(*   "malformed" a well-formed header (type byte, L >= 4) and L - 4 bytes  *)
(*               of payload that is malformed for the type.                *)
(***************************************************************************)
Enc(m) == [bytes |-> encode(m).bytes, msg |-> m, class |-> "encoded", L |-> Len(encode(m).bytes) - 1]

Raw(type, payload, class, m) ==
    [bytes |-> <<type>> \o U32(4 + Len(payload)) \o payload, msg |-> m,
     class |-> class, L |-> 4 + Len(payload)]

\* 'E' with the payload "M" "A" NUL NUL.
ErrorFrame == Raw(TagE, <<TagM, 65, 0, 0>>, "error", ErrorMsg(8))

\* An unknown type byte '?'.
UnknownTypeFrame == Raw(63, <<1>>, "malformed", NoMsg)

\* A RowDescription announcing one field and holding none.
TruncatedRowFrame == Raw(TagT, <<0, 1>>, "malformed", NoMsg)

\* A ReadyForQuery whose status byte is '?'.
BadStatusFrame == Raw(TagZ, <<63>>, "malformed", NoMsg)

\* A CommandComplete whose tag is the byte 0xFF.
BadUtf8TagFrame == Raw(TagC, <<255, 0>>, "malformed", NoMsg)

\* A SimpleQuery whose text is not NUL-terminated.
TruncatedQueryFrame == Raw(TagQ, <<65>>, "malformed", NoMsg)

\* A SimpleQuery whose text is the byte 0xFF.
BadUtf8QueryFrame == Raw(TagQ, <<255, 0>>, "malformed", NoMsg)

\* A Termination carrying a payload byte.
LongTerminationFrame == Raw(TagX, <<0>>, "malformed", NoMsg)

BackendStreamFrames ==
    {Enc(ReadyForQuery("Idle")), Enc(CommandComplete(<<65>>)), Enc(DataRow(<<None>>)),
     Enc(ErrorMsg(4)), Enc(ErrorMsg(8)), ErrorFrame,
     UnknownTypeFrame, TruncatedRowFrame, BadStatusFrame, BadUtf8TagFrame}

FrontendStreamFrames ==
    {Enc(SimpleQuery(<<65>>)), Enc(Termination),
     UnknownTypeFrame, TruncatedQueryFrame, BadUtf8QueryFrame, LongTerminationFrame}

\* The bytes of a sequence of frames, in order.
FrameBytes(fs) == Concat([i \in 1..Len(fs) |-> fs[i].bytes])

\* The position of the first byte of frame i, and of the first byte after it.
FrameStart(fs, i) == Len(FrameBytes(SubSeq(fs, 1, i - 1)))

FrameEnd(fs, i) == Len(FrameBytes(SubSeq(fs, 1, i)))

(***************************************************************************)
(* SpecStream: frames are concatenated into an in-memory stream and the    *)
(* variant-dispatch decoder is called on it repeatedly.                    *)
(***************************************************************************)
InitStream ==
    /\ role \in {"backend", "frontend"}
    /\ frames \in UNION {[1..n -> IF role = "backend" THEN BackendStreamFrames
                                   ELSE FrontendStreamFrames] : n \in 1..MaxFrames}
    /\ stream = FrameBytes(frames)
    /\ spos = 0
    /\ calls = <<>>
    /\ CodecIdle
    /\ ConnIdle
    /\ AppIdle

\* A call can be made while no earlier call has panicked; one call per frame.
CanCall(r) ==
    /\ role = r
    /\ Len(calls) < Len(frames)
    /\ \A i \in 1..Len(calls) : calls[i].res # "Panic"

Called(o) == [start |-> spos, res |-> o.res, msg |-> o.msg, pos |-> o.pos]

\* BackendMessage::read_next_message(&mut cursor)
DecodeNextBackend ==
    /\ CanCall("backend")
    /\ LET o == BackendMessage_read_next_message(stream, spos, Cursor_read(stream, spos, 5))
       IN /\ calls' = Append(calls, Called(o))
          /\ spos' = o.pos
    /\ UNCHANGED <<role, frames, stream, codecVars, connVars, appVars>>

\* FrontendMessage::read_next_message(&mut cursor)
DecodeNextFrontend ==
    /\ CanCall("frontend")
    /\ LET o == FrontendMessage_read_next_message(stream, spos, Cursor_read(stream, spos, 5))
       IN /\ calls' = Append(calls, Called(o))
          /\ spos' = o.pos
    /\ UNCHANGED <<role, frames, stream, codecVars, connVars, appVars>>

NextStream ==
    \/ DecodeNextBackend
    \/ DecodeNextFrontend

SpecStream == InitStream /\ [][NextStream]_vars

\* C3: framing isolation. On a stream that is the concatenation of the
\* encodings of messages m1..mn, the i-th call of the variant-dispatch decoder
\* returns mi and leaves the stream at the first byte of frame i + 1.
C3_Concatenation ==
    (\A j \in 1..Len(frames) : frames[j].class = "encoded") =>
        \A i \in 1..Len(calls) :
            /\ calls[i].res = "Ok"
            /\ calls[i].msg = frames[i].msg
            /\ calls[i].pos = FrameEnd(frames, i)

\* C4: malformed frame containment. A call that starts at the first byte of a
\* frame with a well-formed header and a malformed payload returns an error
\* value and has consumed at most 1 + L bytes, so the next call starts at the
\* following frame boundary.
C4_MalformedContained ==
    \A i \in 1..Len(calls) :
        (frames[i].class = "malformed" /\ calls[i].start = FrameStart(frames, i)) =>
            /\ calls[i].res = "Err"
            /\ calls[i].pos <= calls[i].start + 1 + frames[i].L
            /\ calls[i].pos = FrameEnd(frames, i)

\* C5: opaque Error frame. A call that starts at the first byte of an 'E'
\* frame of declared length L consumes exactly the 1 + L bytes of the frame,
\* returns Error { length: L }, and the next call decodes the frame that
\* follows.
C5_OpaqueError ==
    \A i \in 1..Len(calls) :
        (frames[i].class = "error" /\ calls[i].start = FrameStart(frames, i)) =>
            /\ calls[i].res = "Ok"
            /\ calls[i].msg = ErrorMsg(frames[i].L)
            /\ calls[i].pos = calls[i].start + 1 + frames[i].L
            /\ (i < Len(calls) /\ frames[i + 1].class = "encoded"
                    /\ frames[i + 1].msg.kind # "Error") =>
                   calls[i + 1].res = "Ok" /\ calls[i + 1].msg = frames[i + 1].msg

(***************************************************************************)
(* The blocking adapters (src/src/backend/sync.rs, src/src/frontend.rs).   *)
(* Every message sequence an adapter hands out owns a clone of the socket  *)
(* and its own finished flag; the clones share one read position.          *)
(***************************************************************************)
\* An Authentication frame with the unsupported code 5.
BadAuthFrame == Raw(TagR, U32(5), "malformed", NoMsg)

\* An Authentication frame cut short: the peer closes after 2 payload bytes.
TruncatedAuthFrame ==
    [bytes |-> <<TagR>> \o U32(8) \o <<0, 0>>, msg |-> NoMsg, class |-> "truncated", L |-> 8]

BackendConnFrames ==
    {Enc(Authentication), Enc(ReadyForQuery("Idle")), Enc(CommandComplete(<<65>>)),
     ErrorFrame, UnknownTypeFrame}

FrontendConnFrames ==
    {Enc(SSLRequest), Enc(CancelRequest(1, 2)), Enc(Startup_new), Enc(SimpleQuery(<<65>>)),
     Enc(Termination), UnknownTypeFrame}

\* The outcome of one next() call: what the caller sees (vis), what the
\* decoder returned (res, msg), where the socket is left (pos), the flag of
\* the sequence afterwards, and whether the socket was read at all.
Item(vis, o, fin) ==
    [vis |-> vis, res |-> o.res, msg |-> o.msg, pos |-> o.pos, finished |-> fin, read |-> TRUE]

Ended(p) ==
    [vis |-> "None", res |-> "None", msg |-> NoMsg, pos |-> p, finished |-> TRUE, read |-> FALSE]

\* Backend::read_startup_messages, MessageIterator::next (sync.rs:50-68)
Backend_read_startup_messages_next(finished, s, p) ==
    IF finished THEN Ended(p) ELSE
    LET o == StartupResponse_read_next_message(s, p) IN
    CASE o.res = "Ok" /\ o.msg.kind = "ReadyForQuery" -> Item("Some", o, TRUE)
      [] o.res = "Ok" /\ o.msg.kind # "ReadyForQuery" -> Item("Some", o, FALSE)
      [] o.res = "None" -> Item("None", o, FALSE)
      [] o.res = "Err" -> Item("None", o, FALSE)
      [] OTHER -> Item("Panic", o, FALSE)

\* Backend::read_messages, MessageIterator::next (sync.rs:87-104)
Backend_read_messages_next(finished, s, p, k) ==
    IF finished THEN Ended(p) ELSE
    LET o == BackendMessage_read_next_message(s, p, k) IN
    CASE o.res = "Ok" -> Item("Some", o, o.msg.kind = "ReadyForQuery")
      [] o.res = "Err" -> Item("None", o, FALSE)
      [] OTHER -> Item("Panic", o, FALSE)

\* Frontend::read_ssl_messages, MessageIterator::next (frontend.rs:22-36)
Frontend_read_ssl_messages_next(finished, s, p) ==
    IF finished THEN Ended(p) ELSE
    LET o == SSLRequest_read_next_message(s, p) IN
    CASE o.res = "Ok" -> Item("Some", o, TRUE)
      [] o.res = "Err" -> Item("None", o, FALSE)
      [] OTHER -> Item("Panic", o, FALSE)

\* Frontend::read_startup_messages, MessageIterator::next (frontend.rs:49-64)
Frontend_read_startup_messages_next(finished, s, p) ==
    IF finished THEN Ended(p) ELSE
    LET o == Startup_read_next_message(s, p) IN
    CASE o.res = "Ok" -> Item("Some", o, TRUE)
      [] o.res = "Err" -> Item("None", o, FALSE)
      [] OTHER -> Item("Panic", o, FALSE)

\* Frontend::read_messages, MessageIterator::next (frontend.rs:90-106)
Frontend_read_messages_next(finished, s, p, k) ==
    IF finished THEN Ended(p) ELSE
    LET o == FrontendMessage_read_next_message(s, p, k) IN
    CASE o.res = "Ok" /\ o.msg.kind = "Termination" -> Item("Some", o, TRUE)
      [] o.res = "Ok" /\ o.msg.kind # "Termination" -> Item("Some", o, FALSE)
      [] o.res = "Err" -> Item("None", o, FALSE)
      [] OTHER -> Item("Panic", o, FALSE)

\* TcpStream::read into a buffer of n bytes: what has arrived, at most n; 0
\* once the peer has closed and everything was read.
TcpStream_read(n) == Min(n, arrived - rpos)

(***************************************************************************)
(* SpecConn: a peer writes frames to a socket and closes; the bytes arrive *)
(* in segments; the application asks a blocking adapter for message        *)
(* sequences and pulls from them in any order.                             *)
(***************************************************************************)
InitConn ==
    /\ adapter \in {"Backend", "Frontend"}
    /\ sent \in UNION {[1..n -> IF adapter = "Backend" THEN BackendConnFrames
                                 ELSE FrontendConnFrames] : n \in 1..MaxFrames}
    /\ sock = FrameBytes(sent)
    /\ arrived = 0
    /\ rpos = 0
    /\ apos = 0
    /\ iters = <<>>
    /\ pulls = <<>>
    /\ aborted = FALSE
    /\ dropped = FALSE
    /\ CodecIdle
    /\ StreamIdle
    /\ AppIdle

\* A segment arrives; it ends after the first byte of a frame or at the end of
\* a frame.
Deliver ==
    /\ arrived < Len(sock)
    /\ \E a \in {FrameStart(sent, i) + 1 : i \in 1..Len(sent)}
                   \cup {FrameEnd(sent, i) : i \in 1..Len(sent)} :
          /\ a > arrived
          /\ arrived' = a
    /\ UNCHANGED <<adapter, dropped, sock, sent, rpos, apos, iters, pulls, aborted, codecVars, streamVars, appVars>>

\* A new sequence can be asked for while the thread has not panicked.
CanOpen(a) ==
    /\ adapter = a
    /\ ~aborted
    /\ ~dropped
    /\ Len(iters) < MaxIters

Opened(kind) == Append(iters, [kind |-> kind, finished |-> FALSE])

\* Backend::read_startup_messages (sync.rs:40-75)
Backend_read_startup_messages ==
    /\ CanOpen("Backend")
    /\ iters' = Opened("Backend_read_startup_messages")
    /\ UNCHANGED <<adapter, dropped, sock, sent, arrived, rpos, apos, pulls, aborted, codecVars, streamVars, appVars>>

\* Backend::read_messages (sync.rs:77-111)
Backend_read_messages ==
    /\ CanOpen("Backend")
    /\ iters' = Opened("Backend_read_messages")
    /\ UNCHANGED <<adapter, dropped, sock, sent, arrived, rpos, apos, pulls, aborted, codecVars, streamVars, appVars>>

\* Frontend::read_ssl_messages (frontend.rs:15-40)
Frontend_read_ssl_messages ==
    /\ CanOpen("Frontend")
    /\ iters' = Opened("Frontend_read_ssl_messages")
    /\ UNCHANGED <<adapter, dropped, sock, sent, arrived, rpos, apos, pulls, aborted, codecVars, streamVars, appVars>>

\* Frontend::read_startup_messages (frontend.rs:42-68)
Frontend_read_startup_messages ==
    /\ CanOpen("Frontend")
    /\ iters' = Opened("Frontend_read_startup_messages")
    /\ UNCHANGED <<adapter, dropped, sock, sent, arrived, rpos, apos, pulls, aborted, codecVars, streamVars, appVars>>

\* Frontend::read_messages (frontend.rs:70-74)
Frontend_read_messages ==
    /\ CanOpen("Frontend")
    /\ iters' = Opened("Frontend_read_messages")
    /\ UNCHANGED <<adapter, dropped, sock, sent, arrived, rpos, apos, pulls, aborted, codecVars, streamVars, appVars>>

\* A blocking read returns once a byte has arrived or the peer has closed.
Readable == arrived > rpos \/ arrived = Len(sock)

\* next() can be called on sequence i of the given kind; it returns at once
\* when the flag is set and otherwise when the socket is readable.
CanPull(i, kind) ==
    /\ ~aborted
    /\ Len(pulls) < MaxPulls
    /\ iters[i].kind = kind
    /\ iters[i].finished \/ Readable

Pulled(i, r) ==
    [iter |-> i, kind |-> iters[i].kind, vis |-> r.vis, res |-> r.res, msg |-> r.msg,
     before |-> rpos, after |-> r.pos, avail |-> arrived, read |-> r.read,
     dropped |-> dropped]

\* next() on a sequence of Backend::read_startup_messages
PullBackendStartup ==
    \E i \in 1..Len(iters) :
        /\ CanPull(i, "Backend_read_startup_messages")
        /\ \E r \in {Backend_read_startup_messages_next(iters[i].finished, sock, rpos)} :
              /\ pulls' = Append(pulls, Pulled(i, r))
              /\ iters' = [iters EXCEPT ![i].finished = r.finished]
              /\ rpos' = r.pos
              /\ arrived' = IF r.pos > arrived THEN r.pos ELSE arrived
              /\ aborted' = (r.vis = "Panic")
        /\ UNCHANGED <<adapter, dropped, sock, sent, apos, codecVars, streamVars, appVars>>

\* next() on a sequence of Backend::read_messages
PullBackendMessages ==
    \E i \in 1..Len(iters) :
        /\ CanPull(i, "Backend_read_messages")
        /\ \E r \in {Backend_read_messages_next(iters[i].finished, sock, rpos, TcpStream_read(5))} :
              /\ pulls' = Append(pulls, Pulled(i, r))
              /\ iters' = [iters EXCEPT ![i].finished = r.finished]
              /\ rpos' = r.pos
              /\ arrived' = IF r.pos > arrived THEN r.pos ELSE arrived
              /\ aborted' = (r.vis = "Panic")
        /\ UNCHANGED <<adapter, dropped, sock, sent, apos, codecVars, streamVars, appVars>>

\* next() on a sequence of Frontend::read_ssl_messages
PullFrontendSSL ==
    \E i \in 1..Len(iters) :
        /\ CanPull(i, "Frontend_read_ssl_messages")
        /\ \E r \in {Frontend_read_ssl_messages_next(iters[i].finished, sock, rpos)} :
              /\ pulls' = Append(pulls, Pulled(i, r))
              /\ iters' = [iters EXCEPT ![i].finished = r.finished]
              /\ rpos' = r.pos
              /\ arrived' = IF r.pos > arrived THEN r.pos ELSE arrived
              /\ aborted' = (r.vis = "Panic")
        /\ UNCHANGED <<adapter, dropped, sock, sent, apos, codecVars, streamVars, appVars>>

\* next() on a sequence of Frontend::read_startup_messages
PullFrontendStartup ==
    \E i \in 1..Len(iters) :
        /\ CanPull(i, "Frontend_read_startup_messages")
        /\ \E r \in {Frontend_read_startup_messages_next(iters[i].finished, sock, rpos)} :
              /\ pulls' = Append(pulls, Pulled(i, r))
              /\ iters' = [iters EXCEPT ![i].finished = r.finished]
              /\ rpos' = r.pos
              /\ arrived' = IF r.pos > arrived THEN r.pos ELSE arrived
              /\ aborted' = (r.vis = "Panic")
        /\ UNCHANGED <<adapter, dropped, sock, sent, apos, codecVars, streamVars, appVars>>

\* next() on a sequence of Frontend::read_messages
PullFrontendMessages ==
    \E i \in 1..Len(iters) :
        /\ CanPull(i, "Frontend_read_messages")
        /\ \E r \in {Frontend_read_messages_next(iters[i].finished, sock, rpos, TcpStream_read(5))} :
              /\ pulls' = Append(pulls, Pulled(i, r))
              /\ iters' = [iters EXCEPT ![i].finished = r.finished]
              /\ rpos' = r.pos
              /\ arrived' = IF r.pos > arrived THEN r.pos ELSE arrived
              /\ aborted' = (r.vis = "Panic")
        /\ UNCHANGED <<adapter, dropped, sock, sent, apos, codecVars, streamVars, appVars>>

\* drop(backend) / drop(frontend): the adapter's own TcpStream handle is
\* closed.  Every sequence holds a handle of its own (stream.try_clone()), so
\* the sequences and the socket stay as they are.
Drop ==
    /\ adapter \in {"Backend", "Frontend"}
    /\ ~aborted
    /\ ~dropped
    /\ dropped' = TRUE
    /\ UNCHANGED <<adapter, sock, sent, arrived, rpos, apos, iters, pulls, aborted, codecVars, streamVars, appVars>>

NextConn ==
    \/ Deliver
    \/ Drop
    \/ Backend_read_startup_messages
    \/ Backend_read_messages
    \/ Frontend_read_ssl_messages
    \/ Frontend_read_startup_messages
    \/ Frontend_read_messages
    \/ PullBackendStartup
    \/ PullBackendMessages
    \/ PullFrontendSSL
    \/ PullFrontendStartup
    \/ PullFrontendMessages

SpecConn == InitConn /\ [][NextConn]_vars

\* C23: after the adapter is dropped, every pull on a sequence obtained from
\* it earlier returns end-of-sequence and reads nothing from the socket.
C23_DropEndsSequences ==
    \A k \in 1..Len(pulls) :
        pulls[k].dropped => /\ pulls[k].vis = "None"
                            /\ pulls[k].after = pulls[k].before

\* The frames that are well formed for a sequence of the given kind.
WellFormed(kind) ==
    CASE kind = "Backend_read_startup_messages" ->
             {Enc(Authentication), Enc(ReadyForQuery("Idle"))}
      [] kind = "Backend_read_messages" ->
             {Enc(ReadyForQuery("Idle")), Enc(CommandComplete(<<65>>)), ErrorFrame}
      [] kind = "Frontend_read_messages" ->
             {Enc(SimpleQuery(<<65>>)), Enc(Termination)}
      [] OTHER -> {}

\* The index of the first frame of the stream that carries a message of the
\* given kind, or 0.
FirstOf(kind) ==
    LET Z == {i \in 1..Len(sent) : sent[i].msg.kind = kind}
    IN IF Z = {} THEN 0 ELSE CHOOSE i \in Z : \A j \in Z : i <= j

\* Pulls 1..j were all made on one sequence of the given kind, the first
\* sequence to read from the socket, and the peer sent only frames that are
\* well formed for it.
OneSequence(j, kind) ==
    /\ pulls[1].kind = kind
    /\ \A i \in 1..j : pulls[i].iter = pulls[1].iter
    /\ \A f \in 1..Len(sent) : sent[f] \in WellFormed(kind)

\* What a sequence that ends at the first message of kind last owes the
\* caller on pull j: frame j's message up to and including that message, and
\* afterwards end-of-sequence without a read of the socket.
PhaseTerminates(j, last) ==
    LET z == FirstOf(last)
    IN /\ (j <= Len(sent) /\ (z = 0 \/ j <= z)) =>
              pulls[j].vis = "Some" /\ pulls[j].msg = sent[j].msg
       /\ (z # 0 /\ j > z) =>
              pulls[j].vis = "None" /\ ~pulls[j].read /\ pulls[j].after = pulls[j].before

\* C6: Backend phase termination (blocking adapter). On a stream of
\* well-formed frames that has arrived in full, a sequence of
\* Backend::read_startup_messages (resp. Backend::read_messages) yields every
\* message up to and including the first ReadyForQuery; the next pull and
\* every later pull return end-of-sequence without reading the socket.
C6_BackendPhaseTermination ==
    \A j \in 1..Len(pulls) :
        \A kind \in {"Backend_read_startup_messages", "Backend_read_messages"} :
            (OneSequence(j, kind) /\ pulls[1].avail = Len(sock)) =>
                PhaseTerminates(j, "ReadyForQuery")

\* C7: Frontend phase termination. A sequence of Frontend::read_messages
\* yields every FrontendMessage up to and including the first Termination;
\* every pull after it returns end-of-sequence without reading the socket,
\* whatever bytes follow.
C7_FrontendPhaseTermination ==
    \A j \in 1..Len(pulls) :
        OneSequence(j, "Frontend_read_messages") => PhaseTerminates(j, "Termination")

\* C8: errors terminate a sequence. After a pull of a blocking sequence has
\* hit a transport error or a decode error, no later pull of that sequence
\* produces a message.
C8_ErrorsTerminate ==
    \A i \in 1..Len(pulls) : \A j \in 1..Len(pulls) :
        (i < j /\ pulls[i].iter = pulls[j].iter /\ pulls[i].res = "Err") =>
            pulls[j].vis # "Some"

\* C10: phase state cannot regress. After a startup sequence of the connection
\* has yielded ReadyForQuery, no StartupResponse is produced from the
\* connection again; after the frontend operational sequence has yielded
\* Termination, no FrontendMessage, Startup or SSLRequest is produced from the
\* connection again, whichever sequences are asked for and pulled afterwards.
C10_NoRegress ==
    \A i \in 1..Len(pulls) : \A j \in 1..Len(pulls) :
        i < j =>
            /\ (/\ pulls[i].kind = "Backend_read_startup_messages"
                /\ pulls[i].vis = "Some"
                /\ pulls[i].msg.kind = "ReadyForQuery") =>
                   ~(pulls[j].kind = "Backend_read_startup_messages" /\ pulls[j].vis = "Some")
            /\ (/\ pulls[i].kind = "Frontend_read_messages"
                /\ pulls[i].vis = "Some"
                /\ pulls[i].msg.kind = "Termination") =>
                   ~(adapter = "Frontend" /\ pulls[j].vis = "Some")

\* The frame of the stream that starts where pull j started reading, or 0.
FrameAt(j) ==
    LET Z == {f \in 1..Len(sent) : FrameStart(sent, f) = pulls[j].before}
    IN IF Z = {} \/ ~pulls[j].read THEN 0 ELSE CHOOSE f \in Z : TRUE

\* C24: SSL negotiation is optional. When the client's first frame is a Startup,
\* a pull on the SSL sequence yields no item and consumes none of its bytes,
\* and a pull on the startup sequence made at the start of the stream yields
\* that Startup.
C24_SSLOptional ==
    (adapter = "Frontend" /\ sent[1].msg.kind = "Startup") =>
        \A j \in 1..Len(pulls) :
            /\ (pulls[j].kind = "Frontend_read_ssl_messages" /\ FrameAt(j) = 1) =>
                   /\ pulls[j].vis = "None"
                   /\ pulls[j].after = 0
            /\ (pulls[j].kind = "Frontend_read_startup_messages" /\ FrameAt(j) = 1) =>
                   /\ pulls[j].vis = "Some"
                   /\ pulls[j].msg = sent[1].msg

\* C25: CancelRequest is terminal. A pull of the startup sequence that meets a
\* CancelRequest frame returns without a panic and without a Startup, and no
\* later pull on the connection produces a message.
C25_CancelTerminal ==
    \A j \in 1..Len(pulls) :
        (/\ adapter = "Frontend"
         /\ pulls[j].kind = "Frontend_read_startup_messages"
         /\ FrameAt(j) # 0
         /\ sent[FrameAt(j)].msg.kind = "CancelRequest") =>
            /\ pulls[j].vis = "None"
            /\ \A k \in j + 1..Len(pulls) : pulls[k].vis = "None"

\* The messages the pulls have yielded, in the order of the pulls.
Yielded == SelectSeq(pulls, LAMBDA q : q.vis = "Some")

\* C29: per-direction ordering of the pulls. When the peer sends only frames
\* that are well formed for the sequences pulled, every pull that reads the
\* socket starts at a frame, yields that frame's message and stops at the
\* frame's end, so the messages yielded are the frames in socket order.
C29_SocketOrder ==
    (\A j \in 1..Len(pulls) : \A g \in 1..Len(sent) : sent[g] \in WellFormed(pulls[j].kind)) =>
        /\ \A j \in 1..Len(pulls) :
               (pulls[j].read /\ pulls[j].before < Len(sock)) =>
                   /\ FrameAt(j) # 0
                   /\ pulls[j].vis = "Some"
                   /\ pulls[j].msg = sent[FrameAt(j)].msg
                   /\ pulls[j].after = FrameEnd(sent, FrameAt(j))
        /\ Len(Yielded) <= Len(sent)
        /\ \A k \in 1..Len(Yielded) : Yielded[k].msg = sent[k].msg

\* C33: header delivery independence. A pull on an operational sequence that
\* starts at a well-formed frame returns what the decoder returns when one
\* read call delivers the 5 header bytes, however many of them had arrived
\* when the pull read the socket: the same result, the same message and the
\* same position.
C33_HeaderDelivery ==
    \A j \in 1..Len(pulls) :
        (/\ pulls[j].read
         /\ pulls[j].kind \in {"Backend_read_messages", "Frontend_read_messages"}
         /\ FrameAt(j) # 0
         /\ sent[FrameAt(j)] \in WellFormed(pulls[j].kind)) =>
            \E o \in {IF pulls[j].kind = "Backend_read_messages"
                       THEN BackendMessage_read_next_message(sock, pulls[j].before, 5)
                       ELSE FrontendMessage_read_next_message(sock, pulls[j].before, 5)} :
                /\ pulls[j].res = o.res
                /\ pulls[j].msg = o.msg
                /\ pulls[j].after = o.pos

\* C37: no pre-buffering across sequences. A pull that returns a message
\* starts at a frame and takes exactly the bytes of that frame, and the pull
\* that reads the socket next, on the same or on another sequence, starts at
\* the first byte after that frame.
C37_NoPreBuffering ==
    \A j \in 1..Len(pulls) :
        pulls[j].vis = "Some" =>
            /\ FrameAt(j) # 0
            /\ pulls[j].msg = sent[FrameAt(j)].msg
            /\ pulls[j].after = FrameEnd(sent, FrameAt(j))
            /\ \A k \in j + 1..Len(pulls) :
                   (pulls[k].read /\ \A h \in j + 1..k - 1 : ~pulls[h].read) =>
                       pulls[k].before = FrameEnd(sent, FrameAt(j))

(***************************************************************************)
(* The cooperative adapter (src/src/backend/async.rs), startup phase.      *)
(***************************************************************************)
\* The pull whose Err arm leaves the flag of the sequence as it was.
AsyncBackend_read_startup_messages_pull_open(finished, s, p) ==
    IF finished THEN Ended(p) ELSE
    LET o == StartupResponse_read_next_message_async(s, p) IN
    CASE o.res = "Ok" -> Item("Some", o, o.msg.kind = "ReadyForQuery")
      [] o.res = "None" -> Item("None", o, TRUE)
      [] o.res = "Err" -> Item("Err", o, FALSE)
      [] OTHER -> Item("Panic", o, FALSE)

\* One pull on a sequence of AsyncBackend::read_startup_messages: the
\* iterator's next() (async.rs:93-102) and, when it hands out a future, the
\* future polled to completion (NextStartupResponse::poll, async.rs:148-174).
\* Every byte has arrived, so the decoder's future is Ready on its first poll.
AsyncBackend_read_startup_messages_pull(finished, s, p) ==
    IF finished THEN Ended(p) ELSE
    LET o == StartupResponse_read_next_message_async(s, p) IN
    CASE o.res = "Ok" -> Item("Some", o, o.msg.kind = "ReadyForQuery")
      [] o.res = "None" -> Item("None", o, TRUE)
      [] o.res = "Err" -> Item("Err", o, TRUE)
      [] OTHER -> Item("Panic", o, FALSE)

PairFrames ==
    {Enc(Authentication), Enc(ParameterStatus(<<65>>, <<66>>)), Enc(ReadyForQuery("Idle")),
     BadAuthFrame, UnknownTypeFrame, TruncatedAuthFrame}

(***************************************************************************)
(* SpecPair: the same bytes are fed to a blocking Backend and to a         *)
(* cooperative AsyncBackend; each side pulls from its startup sequence.    *)
(* iters[1] is the blocking sequence (position rpos), iters[2] the         *)
(* cooperative one (position apos).                                        *)
(***************************************************************************)
InitPair ==
    /\ adapter = "Pair"
    /\ sent \in UNION {[1..n -> PairFrames] : n \in 1..MaxFrames}
    /\ \A i \in 1..(Len(sent) - 1) : sent[i].class # "truncated"
    /\ sock = FrameBytes(sent)
    /\ arrived = Len(sock)
    /\ rpos = 0
    /\ apos = 0
    /\ iters = <<[kind |-> "Backend_read_startup_messages", finished |-> FALSE],
                 [kind |-> "AsyncBackend_read_startup_messages", finished |-> FALSE]>>
    /\ pulls = <<>>
    /\ aborted = FALSE
    /\ dropped = FALSE
    /\ CodecIdle
    /\ StreamIdle
    /\ AppIdle

CanPullPair ==
    /\ adapter = "Pair"
    /\ ~aborted
    /\ Len(pulls) < MaxPulls

\* next() on the blocking startup sequence
PullSync ==
    /\ CanPullPair
    /\ \E r \in {Backend_read_startup_messages_next(iters[1].finished, sock, rpos)} :
          /\ pulls' = Append(pulls, Pulled(1, r))
          /\ iters' = [iters EXCEPT ![1].finished = r.finished]
          /\ rpos' = r.pos
          /\ aborted' = (r.vis = "Panic")
    /\ UNCHANGED <<adapter, dropped, sock, sent, arrived, apos, codecVars, streamVars, appVars>>

\* next() on the cooperative startup sequence, and the future awaited
PullAsync ==
    /\ CanPullPair
    /\ \E r \in {AsyncBackend_read_startup_messages_pull(iters[2].finished, sock, apos)} :
          /\ pulls' = Append(pulls, [Pulled(2, r) EXCEPT !.before = apos])
          /\ iters' = [iters EXCEPT ![2].finished = r.finished]
          /\ apos' = r.pos
          /\ aborted' = (r.vis = "Panic")
    /\ UNCHANGED <<adapter, dropped, sock, sent, arrived, rpos, codecVars, streamVars, appVars>>

NextPair ==
    \/ PullSync
    \/ PullAsync

SpecPair == InitPair /\ [][NextPair]_vars

\* The pulls made so far on sequence i, in order.
PullsOn(i) == SelectSeq(pulls, LAMBDA r : r.iter = i)

\* C9: identical failure semantics across adapters. On the same bytes, while
\* every earlier pull of both sequences produced a message, the n-th pulls of
\* the blocking and of the cooperative sequence produce the same message, and
\* when frame n carries a transport or decode error and the sequence has not
\* ended at a ReadyForQuery before it, both report an error outcome, which is
\* not end-of-sequence.
C9_SameFailure ==
    \A n \in 1..Min(Len(PullsOn(1)), Len(PullsOn(2))) :
        (\A m \in 1..(n - 1) : PullsOn(1)[m].vis = "Some" /\ PullsOn(2)[m].vis = "Some") =>
            /\ (PullsOn(1)[n].vis = "Some" \/ PullsOn(2)[n].vis = "Some") =>
                   /\ PullsOn(1)[n].vis = PullsOn(2)[n].vis
                   /\ PullsOn(1)[n].msg = PullsOn(2)[n].msg
            /\ (/\ n <= Len(sent)
                /\ sent[n].class # "encoded"
                /\ \A m \in 1..(n - 1) : sent[m].msg.kind # "ReadyForQuery") =>
                   PullsOn(1)[n].vis = "Err" /\ PullsOn(2)[n].vis = "Err"

(***************************************************************************)
(* Frames handed to one decoder at a time.                                 *)
(***************************************************************************)
\* n zero bytes.
Zeros(n) == [i \in 1..n |-> 0]

\* A pre-startup frame with the given (length, major, minor) triple.  A frame
\* of length 16 carries the two u32 1 and 2; any other carries zero bytes, so
\* that a Startup payload starts with the empty key that ends the list.
TripleFrame(l, ma, mi) ==
    [bytes |-> U32(l) \o U16(ma) \o U16(mi)
                   \o (IF l = 16 THEN U32(1) \o U32(2) ELSE Zeros(l - 8)),
     msg |-> NoMsg, class |-> "triple", L |-> l, major |-> ma, minor |-> mi]

TripleFrames ==
    {TripleFrame(l, ma, mi) : l \in {8, 9, 12, 16},
                              ma \in {PROTO_MAJOR, SSL_MAJOR, 2},
                              mi \in {PROTO_MINOR, CANCEL_MINOR, SSL_MINOR, 1}}

\* An Authentication frame with the given code.
AuthFrame(code) == Raw(TagR, U32(code), "typed", NoMsg)

\* A ReadyForQuery frame with the given status byte.
StatusFrame(b) == Raw(TagZ, <<b>>, "typed", NoMsg)

\* The status bytes tried: 'I', 'T', 'E', '?', NUL and 0xFF.
StatusBytes == {TagI, StatusT, StatusE, 63, 0, 255}

StartupResponseFrames ==
    {Enc(Authentication)}
        \cup {AuthFrame(c) : c \in {0, 1, 3, 5, 16777216, 305419896}}
        \cup {Raw(TagR, <<255, 255, 255, 255>>, "typed", NoMsg)}
        \cup {StatusFrame(b) : b \in StatusBytes}
        \cup {Raw(TagS, <<65, 0, 66, 0>>, "typed", NoMsg),
              Raw(TagK, U32(1) \o U32(2), "typed", NoMsg),
              Raw(TagE, <<1>>, "typed", NoMsg),
              Raw(TagN, <<1>>, "typed", NoMsg),
              Raw(63, <<1>>, "typed", NoMsg)}

\* The fields a NoticeMessage payload is built from: tag and text.
NoticeFields ==
    {<<TagS, StrLOG>>, <<TagS, <<65>>>>, <<TagV, StrINFO>>, <<TagV, <<66>>>>,
     <<TagC, <<65>>>>, <<TagM, <<66>>>>}

RECURSIVE NoticeField_bytes(_)
NoticeField_bytes(fs) ==
    IF fs = <<>> THEN <<>>
    ELSE <<Head(fs)[1]>> \o Head(fs)[2] \o <<0>> \o NoticeField_bytes(Tail(fs))

\* A NoticeMessage payload: the fields in order, then the terminator.
NoticePayload(fs) ==
    [bytes |-> NoticeField_bytes(fs) \o <<0>>, msg |-> NoMsg, class |-> "notice",
     L |-> Len(NoticeField_bytes(fs)) + 5, fields |-> fs]

\* Payloads of up to three fields, no tag twice.
NoticePayloads ==
    {NoticePayload(fs) : fs \in {g \in SeqsUpTo(NoticeFields, 3) :
                                     \A i \in 1..Len(g) : \A j \in 1..Len(g) :
                                         i # j => g[i][1] # g[j][1]}}

WireFrames(r) ==
    CASE r = "StartupRequest" -> TripleFrames
      [] r = "StartupResponse" -> StartupResponseFrames
      [] r = "StartupResponseAsync" -> StartupResponseFrames
      [] r = "BackendMessage" -> {StatusFrame(b) : b \in StatusBytes}
      [] r = "NoticeMessage" -> NoticePayloads

(***************************************************************************)
(* SpecWire: one frame is handed to one decoder through a Cursor.          *)
(***************************************************************************)
InitWire ==
    /\ role \in {"StartupRequest", "StartupResponse", "StartupResponseAsync",
                 "BackendMessage", "NoticeMessage"}
    /\ frames \in {<<f>> : f \in WireFrames(role)}
    /\ stream = FrameBytes(frames)
    /\ spos = 0
    /\ calls = <<>>
    /\ CodecIdle
    /\ ConnIdle
    /\ AppIdle

\* StartupRequest::read_next_message(&mut cursor)
ReadStartupRequest ==
    /\ role = "StartupRequest" /\ calls = <<>>
    /\ \E o \in {StartupRequest_read_next_message(stream, spos)} :
          /\ calls' = Append(calls, Called(o))
          /\ spos' = o.pos
    /\ UNCHANGED <<role, frames, stream, codecVars, connVars, appVars>>

\* StartupResponse::read_next_message(&mut cursor)
ReadStartupResponse ==
    /\ role = "StartupResponse" /\ calls = <<>>
    /\ \E o \in {StartupResponse_read_next_message(stream, spos)} :
          /\ calls' = Append(calls, Called(o))
          /\ spos' = o.pos
    /\ UNCHANGED <<role, frames, stream, codecVars, connVars, appVars>>

\* StartupResponse::read_next_message_async(&mut reader), awaited
ReadStartupResponseAsync ==
    /\ role = "StartupResponseAsync" /\ calls = <<>>
    /\ \E o \in {StartupResponse_read_next_message_async(stream, spos)} :
          /\ calls' = Append(calls, Called(o))
          /\ spos' = o.pos
    /\ UNCHANGED <<role, frames, stream, codecVars, connVars, appVars>>

\* BackendMessage::read_next_message(&mut cursor) on a ReadyForQuery frame
ReadBackendMessage ==
    /\ role = "BackendMessage" /\ calls = <<>>
    /\ \E o \in {BackendMessage_read_next_message(stream, spos, Cursor_read(stream, spos, 5))} :
          /\ calls' = Append(calls, Called(o))
          /\ spos' = o.pos
    /\ UNCHANGED <<role, frames, stream, codecVars, connVars, appVars>>

\* NoticeMessage::read_next_message(&mut cursor) on a payload
ReadNoticeMessage ==
    /\ role = "NoticeMessage" /\ calls = <<>>
    /\ \E o \in {Lift(NoticeMessage_read_next_message(stream), Len(stream))} :
          /\ calls' = Append(calls, Called(o))
          /\ spos' = o.pos
    /\ UNCHANGED <<role, frames, stream, codecVars, connVars, appVars>>

NextWire ==
    \/ ReadStartupRequest
    \/ ReadStartupResponse
    \/ ReadStartupResponseAsync
    \/ ReadBackendMessage
    \/ ReadNoticeMessage

SpecWire == InitWire /\ [][NextWire]_vars

\* The frame handed to the decoder and the outcome of the one call made.
TheFrame == frames[1]

TheCall == calls[1]

\* C11: StartupRequest::read_next_message maps the triple (8,1234,5679) to
\* SSLRequest, (16,1234,5678) to CancelRequest with the two u32 that follow,
\* (any length,3,0) to Startup, and returns an 'unsupported protocol' error
\* value to the caller for every other triple.
C11_StartupRequestDispatch ==
    (role = "StartupRequest" /\ calls # <<>>) =>
        LET f == TheFrame
            t == <<f.L, f.major, f.minor>>
        IN CASE t = <<8, SSL_MAJOR, SSL_MINOR>> ->
                    TheCall.res = "Ok" /\ TheCall.msg = SSLRequest
             [] t = <<16, SSL_MAJOR, CANCEL_MINOR>> ->
                    TheCall.res = "Ok" /\ TheCall.msg = CancelRequest(1, 2)
             [] f.major = PROTO_MAJOR /\ f.minor = PROTO_MINOR /\ f.L > 8 ->
                    TheCall.res = "Ok" /\ TheCall.msg.kind = "Startup"
             [] f.major = PROTO_MAJOR /\ f.minor = PROTO_MINOR /\ f.L = 8 ->
                    TheCall.res \in {"Ok", "Err"}
             [] OTHER -> TheCall.res = "Err"

\* The type byte, the authentication code and the status byte of a typed frame.
TypeOf(f) == f.bytes[1]

CodeOf(f) == BE32(f.bytes, 5)

StatusOf(f) == f.bytes[6]

\* C12: decoding a startup-phase frame maps R to Authentication, S to
\* ParameterStatus, K to BackendKeyData and Z to ReadyForQuery, and reports a
\* fatal error to the caller for any other type byte, in the blocking decoder
\* and in the cooperative decoder alike.
C12_StartupResponseDispatch ==
    (role \in {"StartupResponse", "StartupResponseAsync"} /\ calls # <<>>) =>
        LET f == TheFrame
            ty == TypeOf(f)
        IN /\ (ty = TagR /\ CodeOf(f) = 0) =>
                  TheCall.res = "Ok" /\ TheCall.msg = Authentication
           /\ ty = TagS =>
                  TheCall.res = "Ok" /\ TheCall.msg = ParameterStatus(<<65>>, <<66>>)
           /\ ty = TagK =>
                  TheCall.res = "Ok" /\ TheCall.msg = BackendKeyData(1, 2)
           /\ (ty = TagZ /\ StatusOf(f) \in {TagI, StatusT, StatusE}) =>
                  TheCall.res = "Ok" /\ TheCall.msg.kind = "ReadyForQuery"
           /\ ty \notin {TagR, TagS, TagK, TagZ} => TheCall.res = "Err"

\* C13: a ReadyForQuery payload byte 'I', 'T' or 'E' decodes to Idle,
\* InTransaction or InFailedTransaction, and any other payload byte makes the
\* decode return a decode-error value to the caller instead of aborting.
C13_StatusDecoding ==
    (role \in {"BackendMessage", "StartupResponse", "StartupResponseAsync"}
         /\ calls # <<>> /\ TypeOf(TheFrame) = TagZ) =>
        LET b == StatusOf(TheFrame)
        IN CASE b = TagI -> TheCall.res = "Ok" /\ TheCall.msg = ReadyForQuery("Idle")
             [] b = StatusT -> TheCall.res = "Ok" /\ TheCall.msg = ReadyForQuery("InTransaction")
             [] b = StatusE -> TheCall.res = "Ok" /\ TheCall.msg = ReadyForQuery("InFailedTransaction")
             [] OTHER -> TheCall.res = "Err"

\* C14: TransactionStatus::Unknown is never emitted: whatever ReadyForQuery
\* value is encoded (the Default one with status Unknown included), the bytes
\* the encoder hands over carry a status byte among 'I', 'T', 'E', and an
\* encoder that did not return hands over no byte at all.
C14_UnknownNeverEmitted ==
    (cpc # "chosen" /\ msg.val.kind = "ReadyForQuery") =>
        /\ wire.res = "Ok" =>
               /\ Len(wire.bytes) = 6
               /\ wire.bytes[6] \in {TagI, StatusT, StatusE}
               /\ msg.val.transaction_status # "Unknown"
        /\ wire.res # "Ok" => wire.bytes = <<>>

\* The Default ReadyForQuery (status Unknown) was handed to encode.
C14_Witness ==
    /\ cpc = "encoded"
    /\ msg.val = ReadyForQuery("Unknown")
    /\ wire.res = "Panic"

\* C15: an Authentication payload whose u32 code is 0 decodes to
\* Authentication::Ok, every other code makes the decode return an error, and
\* Authentication::Ok encodes to exactly 52 00 00 00 08 00 00 00 00.
C15_Authentication ==
    (role \in {"StartupResponse", "StartupResponseAsync"} /\ TypeOf(TheFrame) = TagR) =>
        /\ TheFrame.class = "encoded" =>
               TheFrame.bytes = <<82, 0, 0, 0, 8, 0, 0, 0, 0>>
        /\ calls # <<>> =>
               IF SubSeq(TheFrame.bytes, 6, 9) = <<0, 0, 0, 0>>
               THEN TheCall.res = "Ok" /\ TheCall.msg = Authentication /\ TheCall.pos = 9
               ELSE TheCall.res = "Err"

\* A decoder was handed an Authentication frame with a code other than 0, with
\* the low byte 0.
C15_Witness ==
    /\ role \in {"StartupResponse", "StartupResponseAsync"}
    /\ calls # <<>>
    /\ TheFrame.bytes = <<82, 0, 0, 0, 8, 1, 0, 0, 0>>
    /\ TheCall.res = "Err"

\* The tags of a payload's fields and the text of the field with a given tag.
TagsOf(fs) == {fs[i][1] : i \in 1..Len(fs)}

TextOf(fs, tag) == fs[CHOOSE i \in 1..Len(fs) : fs[i][1] = tag][2]

\* C16: when a NoticeMessage payload holds both an 'S' field and a 'V' field,
\* the decoded severity is the one the 'V' field gives, in whatever order the
\* two fields appear.
C16_SeverityPrecedence ==
    (role = "NoticeMessage" /\ calls # <<>> /\ {TagS, TagV} \subseteq TagsOf(TheFrame.fields)) =>
        /\ TheCall.res = "Ok"
        /\ TheCall.msg.severity = Severity_from_text(TextOf(TheFrame.fields, TagV))

\* C17: for every NoticeMessage n, n.encode() starts with 'N' and the length
\* payload + 4, and BackendMessage::read_next_message applied to it returns
\* NoticeMessage(n); a notice built with no fields (severity Warning, empty
\* code, empty message) encodes to 19 bytes with the length field 18.
C17_NoticeThroughBackend ==
    (msg.group = "BackendMessage" /\ msg.val.kind = "NoticeMessage" /\ cpc # "chosen") =>
        /\ wire.res = "Ok"
        /\ wire.bytes[1] = TagN
        /\ BE32(wire.bytes, 2) = Len(wire.bytes) - 1
        /\ msg.val = NoticeMessage(Severity("Warning", <<>>), <<>>, <<>>) =>
               Len(wire.bytes) = 19 /\ BE32(wire.bytes, 2) = 18
        /\ cpc = "decoded" => decoded.res = "Ok" /\ decoded.msg = msg.val

\* The number of bytes of an encoded DataRow that precede the slot of field i
\* when a NULL field takes its four length bytes and nothing else.
RECURSIVE SlotStart(_, _)
SlotStart(fs, i) ==
    IF i = 1 THEN 7
    ELSE SlotStart(fs, i - 1) + 4 + (IF fs[i - 1].some THEN Len(fs[i - 1].value) ELSE 0)

\* C18: for every DataRow and every index i, field i is NULL iff the encoded
\* length slot i holds 0xFFFFFFFF followed by no value bytes, and decoding the
\* encoding returns a DataRow with None at the same indices and the original
\* strings at the others.
C18_NullRoundTrip ==
    (msg.group = "BackendMessage" /\ msg.val.kind = "DataRow" /\ cpc # "chosen") =>
        LET fs == msg.val.fields
            n == Len(fs)
        IN /\ wire.res = "Ok"
           /\ Len(wire.bytes) = SlotStart(fs, n + 1)
           /\ \A i \in 1..n :
                  LET a == SlotStart(fs, i)
                      slot == SubSeq(wire.bytes, a + 1, a + 4)
                  IN /\ fs[i] = None <=> slot = <<255, 255, 255, 255>>
                     /\ fs[i] # None =>
                            /\ slot = U32(Len(fs[i].value))
                            /\ SubSeq(wire.bytes, a + 5, a + 4 + Len(fs[i].value)) = fs[i].value
           /\ cpc = "decoded" =>
                  /\ decoded.res = "Ok"
                  /\ decoded.msg.kind = "DataRow"
                  /\ Len(decoded.msg.fields) = n
                  /\ \A i \in 1..n : decoded.msg.fields[i] = fs[i]

\* A row with a NULL field before a string field went through encode and decode.
C18_Witness ==
    /\ cpc = "decoded"
    /\ msg.group = "BackendMessage"
    /\ msg.val = DataRow(<<None, Some(<<65>>)>>)
    /\ wire.bytes = <<68, 0, 0, 0, 15, 0, 2, 255, 255, 255, 255, 0, 0, 0, 1, 65>>
    /\ decoded.msg = msg.val

(***************************************************************************)
(* SpecStartup: a Startup value is built through its public API            *)
(* (Startup::new, add_parameter, and the public field `parameters`), then  *)
(* encoded, and the bytes are decoded.                                     *)
(***************************************************************************)
\* The keys and values passed to the API; a Rust string may hold a NUL.
StartupKeys == {<<>>, <<65>>, <<65, 66>>}

StartupValues == {<<>>, <<66>>, <<0>>}

\* let mut startup = Startup::new();
InitStartup ==
    /\ cpc = "building"
    /\ msg = [group |-> "Startup", val |-> Startup_new, direct |-> FALSE, ops |-> 0]
    /\ wire = NoWire
    /\ decoded = NoOut
    /\ StreamIdle
    /\ ConnIdle
    /\ AppIdle

\* startup.add_parameter(key, value)
AddParameter ==
    /\ cpc = "building" /\ msg.ops < MaxOps
    /\ \E k \in StartupKeys, v \in StartupValues :
          msg' = [msg EXCEPT !.val = add_parameter(@, k, v), !.ops = @ + 1]
    /\ UNCHANGED <<cpc, wire, decoded, streamVars, connVars, appVars>>

\* startup.parameters.push((key, value)): the field is public, length is not.
PushParameter ==
    /\ cpc = "building" /\ msg.ops < MaxOps
    /\ \E k \in StartupKeys, v \in StartupValues :
          msg' = [msg EXCEPT !.val.parameters = Append(@, <<k, v>>),
                             !.direct = TRUE, !.ops = @ + 1]
    /\ UNCHANGED <<cpc, wire, decoded, streamVars, connVars, appVars>>

\* startup.parameters.clear()
ClearParameters ==
    /\ cpc = "building" /\ msg.ops < MaxOps
    /\ msg.val.parameters # <<>>
    /\ msg' = [msg EXCEPT !.val.parameters = <<>>, !.direct = TRUE, !.ops = @ + 1]
    /\ UNCHANGED <<cpc, wire, decoded, streamVars, connVars, appVars>>

\* startup.encode()
EncodeStartup ==
    /\ cpc = "building"
    /\ wire' = Startup_encode(msg.val)
    /\ cpc' = "encoded"
    /\ UNCHANGED <<msg, decoded, streamVars, connVars, appVars>>

\* Startup::read_next_message(&mut cursor) on the encoded bytes
ReadStartup ==
    /\ cpc = "encoded"
    /\ decoded' = Startup_read_next_message(wire.bytes, 0)
    /\ cpc' = "decoded"
    /\ UNCHANGED <<msg, wire, streamVars, connVars, appVars>>

\* StartupRequest::read_next_message(&mut cursor) on the encoded bytes
ReadStartupAsRequest ==
    /\ cpc = "encoded"
    /\ decoded' = StartupRequest_read_next_message(wire.bytes, 0)
    /\ cpc' = "decoded_as_request"
    /\ UNCHANGED <<msg, wire, streamVars, connVars, appVars>>

NextStartup ==
    \/ AddParameter
    \/ PushParameter
    \/ ClearParameters
    \/ EncodeStartup
    \/ ReadStartup
    \/ ReadStartupAsRequest

SpecStartup == InitStartup /\ [][NextStartup]_vars

\* One of the two decoders has returned.
StartupDecoded == cpc \in {"decoded", "decoded_as_request"}

\* The bytes the pairs of a parameter list take on the wire.
RECURSIVE PairsLen(_)
PairsLen(ps) ==
    IF ps = <<>> THEN 0
    ELSE Len(Head(ps)[1]) + 1 + Len(Head(ps)[2]) + 1 + PairsLen(Tail(ps))

\* The pairs that precede the first pair with an empty key.
RECURSIVE BeforeEmptyKey(_)
BeforeEmptyKey(ps) ==
    IF ps = <<>> \/ Head(ps)[1] = <<>> THEN <<>>
    ELSE <<Head(ps)>> \o BeforeEmptyKey(Tail(ps))

\* No key and no value of the list holds a NUL byte.
NoNul(ps) ==
    \A i \in 1..Len(ps) : \A j \in 1..2 : \A n \in 1..Len(ps[i][j]) : ps[i][j][n] # 0

\* After add_parameter calls alone, the length field written by encode is the
\* number of bytes produced, 8 + sum(len(key)+1+len(value)+1) + 1.
LengthBookkeeping ==
    /\ wire.res = "Ok"
    /\ BE32(wire.bytes, 1) = Len(wire.bytes)
    /\ Len(wire.bytes) = 8 + PairsLen(msg.val.parameters) + 1

C20_LengthNotTrusted ==
    (msg.group = "Startup" /\ cpc # "building") =>
        /\ wire.res = "Ok"
        /\ BE32(wire.bytes, 1) = Len(wire.bytes)

\* The parameter list holds a pair with an empty key.
HasEmptyKey(ps) == \E i \in 1..Len(ps) : ps[i][1] = <<>>

\* C38: Startup sentinel parsing. Decoding stops at the first empty key: a
\* Startup whose parameter list holds a pair with an empty key encodes to
\* bytes that decode, without error, to exactly the pairs before that pair,
\* in order.
C38_SentinelParsing ==
    (msg.group = "Startup" /\ StartupDecoded /\ HasEmptyKey(msg.val.parameters)) =>
        /\ decoded.res = "Ok"
        /\ decoded.msg.kind = "Startup"
        /\ decoded.msg.parameters = BeforeEmptyKey(msg.val.parameters)

(***************************************************************************)
(* SpecAsync: the cooperative adapter (src/src/backend/async.rs) used by   *)
(* three tasks.  One task runs send_message; two tasks poll futures of one *)
(* read_startup_messages sequence.  Every inbound byte has arrived.        *)
(***************************************************************************)
Pullers == {"p1", "p2"}

\* The messages handed to send_message; the last one makes encode panic.
SendMessages ==
    {Authentication, ReadyForQuery("Idle"), CommandComplete(<<65>>), ReadyForQuery("Unknown")}

AsyncFrames == {Enc(Authentication), Enc(ReadyForQuery("Idle"))}

Gate_single(op) == "reader"

\* The Mutex each operation locks: send_message locks self.writer, a poll
\* locks self.reader.
Gate(op) == IF op = "send_message" THEN "writer" ELSE "reader"

\* Mutex::lock returns when no task holds the guard.
Mutex_free(g) == gates[g] = {}

Rest_whole(message, n) == message

\* message = (&message[n..]).to_vec()
Rest(message, n) == SubSeq(message, n + 1, Len(message))

InitAsync ==
    /\ adapter = "AsyncBackend"
    /\ sent \in UNION {[1..n -> AsyncFrames] : n \in 1..MaxFrames}
    /\ sock = FrameBytes(sent)
    /\ arrived = Len(sock)
    /\ rpos = 0
    /\ apos = 0
    /\ iters = <<[kind |-> "AsyncBackend_read_startup_messages", finished |-> FALSE]>>
    /\ pulls = <<>>
    /\ aborted = FALSE
    /\ dropped = FALSE
    /\ \E m \in SendMessages :
          tasks = [send |-> [pc |-> "call", message |-> m, encoded |-> <<>>, buffer |-> <<>>,
                             last |-> "none", n |-> 0, result |-> "none"],
                   p1 |-> [pc |-> "idle", result |-> "none"],
                   p2 |-> [pc |-> "idle", result |-> "none"]]
    /\ gates = [reader |-> {}, writer |-> {}]
    /\ out = <<>>
    /\ CodecIdle
    /\ StreamIdle

\* send_message: let mut message = message.encode();
SendEncode ==
    /\ tasks.send.pc = "call"
    /\ \E e \in {encode(tasks.send.message)} :
          tasks' = [tasks EXCEPT !.send.pc = IF e.res = "Ok" THEN "lock" ELSE "panicked",
                                 !.send.encoded = e.bytes,
                                 !.send.buffer = e.bytes]
    /\ UNCHANGED <<gates, out, codecVars, streamVars, connVars>>

\* let writer = self.writer.lock().unwrap();
SendLock ==
    /\ tasks.send.pc = "lock"
    /\ Mutex_free(Gate("send_message"))
    /\ gates' = [gates EXCEPT ![Gate("send_message")] = @ \cup {"send"}]
    /\ tasks' = [tasks EXCEPT !.send.pc = "writable"]
    /\ UNCHANGED <<out, codecVars, streamVars, connVars>>

\* writer.writable().await?: the task is suspended holding the guard, then
\* resumes, or the error is returned.
SendWritable ==
    /\ tasks.send.pc = "writable"
    /\ \/ /\ tasks' = [tasks EXCEPT !.send.pc = "try_write"]
          /\ UNCHANGED gates
       \/ /\ tasks' = [tasks EXCEPT !.send.pc = "returned", !.send.result = "Err",
                                    !.send.last = "NotWritable"]
          /\ gates' = [gates EXCEPT ![Gate("send_message")] = @ \ {"send"}]
    /\ UNCHANGED <<out, codecVars, streamVars, connVars>>

\* writer.try_write(&message) returns Ok(n): the socket accepted n bytes.
SendTryWriteOk ==
    /\ tasks.send.pc = "try_write"
    /\ \E n \in 0..Len(tasks.send.buffer) :
          /\ out' = out \o SubSeq(tasks.send.buffer, 1, n)
          /\ \E rest \in {Rest(tasks.send.buffer, n)} :
                tasks' = [tasks EXCEPT !.send.buffer = rest,
                                       !.send.last = "Ok",
                                       !.send.n = n,
                                       !.send.pc = IF rest = <<>> THEN "returned" ELSE "lock",
                                       !.send.result = IF rest = <<>> THEN "Ok" ELSE @]
    /\ gates' = [gates EXCEPT ![Gate("send_message")] = @ \ {"send"}]
    /\ UNCHANGED <<codecVars, streamVars, connVars>>

\* try_write returns Err(WouldBlock): continue
SendTryWriteWouldBlock ==
    /\ tasks.send.pc = "try_write"
    /\ tasks' = [tasks EXCEPT !.send.pc = "lock", !.send.last = "WouldBlock"]
    /\ gates' = [gates EXCEPT ![Gate("send_message")] = @ \ {"send"}]
    /\ UNCHANGED <<out, codecVars, streamVars, connVars>>

\* try_write returns any other error: return Err(err.into())
SendTryWriteErr ==
    /\ tasks.send.pc = "try_write"
    /\ tasks' = [tasks EXCEPT !.send.pc = "returned", !.send.result = "Err",
                              !.send.last = "Err"]
    /\ gates' = [gates EXCEPT ![Gate("send_message")] = @ \ {"send"}]
    /\ UNCHANGED <<out, codecVars, streamVars, connVars>>

\* NextStartupResponse::poll with the flag set: Ready(Ok(None)), no lock taken.
PollFinished(t) ==
    /\ tasks[t].pc = "idle"
    /\ iters[1].finished
    /\ tasks' = [tasks EXCEPT ![t].result = "None"]
    /\ UNCHANGED <<gates, out, codecVars, streamVars, connVars>>

\* NextStartupResponse::poll: the flag is clear; let mut reader = self.reader.lock().unwrap();
PollLock(t) ==
    /\ tasks[t].pc = "idle"
    /\ ~iters[1].finished
    /\ Mutex_free(Gate("poll"))
    /\ gates' = [gates EXCEPT ![Gate("poll")] = @ \cup {t}]
    /\ tasks' = [tasks EXCEPT ![t].pc = "locked"]
    /\ UNCHANGED <<out, codecVars, streamVars, connVars>>

\* The rest of poll: the decoder's future is polled, the flag stored, the guard
\* dropped.
PollRead(t) ==
    /\ tasks[t].pc = "locked"
    /\ \E r \in {AsyncBackend_read_startup_messages_pull(FALSE, sock, apos)} :
          /\ apos' = r.pos
          /\ iters' = [iters EXCEPT ![1].finished = r.finished]
          /\ tasks' = [tasks EXCEPT ![t].pc = "idle", ![t].result = r.vis]
    /\ gates' = [gates EXCEPT ![Gate("poll")] = @ \ {t}]
    /\ UNCHANGED <<adapter, dropped, sock, sent, arrived, rpos, pulls, aborted, out,
                   codecVars, streamVars>>

NextAsync ==
    \/ SendEncode
    \/ SendLock
    \/ SendWritable
    \/ SendTryWriteOk
    \/ SendTryWriteWouldBlock
    \/ SendTryWriteErr
    \/ \E t \in Pullers : PollFinished(t)
    \/ \E t \in Pullers : PollLock(t)
    \/ \E t \in Pullers : PollRead(t)

SpecAsync == InitAsync /\ [][NextAsync]_vars

\* C21: a cooperative send hands the socket every byte of the encoded message,
\* once and in order, however the socket splits the writes; it returns Ok only
\* when nothing remains, a would-block is retried, and any other failure is
\* returned as the send's error.
C21_SendDrains ==
    LET s == tasks.send IN
    /\ s.pc \notin {"call", "panicked"} => out \o s.buffer = s.encoded
    /\ s.result = "Ok" => /\ s.pc = "returned"
                          /\ out = encode(s.message).bytes
    /\ s.last = "WouldBlock" => /\ s.pc \in {"lock", "writable", "try_write"}
                                /\ s.result = "none"
    /\ s.last \in {"Err", "NotWritable"} <=> s.result = "Err"
    /\ s.pc = "returned" => s.result \in {"Ok", "Err"}

\* A send that returned Ok after the socket took the message in several writes.
C21_Witness ==
    /\ tasks.send.result = "Ok"
    /\ tasks.send.n > 0
    /\ tasks.send.n < Len(tasks.send.encoded)
    /\ out = tasks.send.encoded

\* C22: each gate has at most one holder, no task holds both, and a task
\* waiting for one half is held up only by a holder of that same half: a send
\* suspended with the write gate never keeps a pull from locking and
\* finishing, and pulls never keep the send from locking.
C22_IndependentGates ==
    /\ Cardinality(gates.reader) <= 1
    /\ Cardinality(gates.writer) <= 1
    /\ gates.reader \cap gates.writer = {}
    /\ \A t \in Pullers :
          /\ (tasks[t].pc = "idle" /\ ~iters[1].finished /\ gates.reader \cap Pullers = {})
                => ENABLED PollLock(t)
          /\ tasks[t].pc = "locked" => t \in gates.reader
          /\ (tasks[t].pc = "locked" /\ tasks.send.pc = "writable") => ENABLED PollRead(t)
    /\ (tasks.send.pc = "lock" /\ "send" \notin gates.writer) => ENABLED SendLock
    /\ tasks.send.pc \in {"writable", "try_write"} => gates.writer = {"send"}

\* The send is suspended holding the write gate while a pull holds the read
\* gate, and the other puller has already had a message.
C22_Witness ==
    /\ tasks.send.pc = "writable"
    /\ gates.writer = {"send"}
    /\ gates.reader = {"p1"}
    /\ tasks.p2.result = "Some"

(***************************************************************************)
(* SpecBuilder: a RowDescription made with its builder                     *)
(* (src/src/messages/backend/row_description.rs).                          *)
(***************************************************************************)
\* The names passed to string_field: "", "A", "AB", "id".
FieldNames == {<<>>, <<65>>, <<65, 66>>, <<105, 100>>}

\* RowDescription::field_names
field_names(m) == [i \in 1..Len(m.fields) |-> m.fields[i].name]

\* RowDescription::builder()
InitBuilder ==
    /\ cpc = "building"
    /\ msg = [group |-> "RowDescriptionBuilder", fields |-> <<>>, calls |-> <<>>, val |-> NoMsg,
              named |-> FALSE, names |-> <<>>]
    /\ wire = NoWire
    /\ decoded = NoOut
    /\ StreamIdle
    /\ ConnIdle
    /\ AppIdle

\* builder.string_field(name)
BuilderStringField ==
    /\ cpc = "building" /\ Len(msg.calls) < MaxOps
    /\ \E name \in FieldNames :
          msg' = [msg EXCEPT !.fields = Append(@, string_field(name)),
                             !.calls = Append(@, name)]
    /\ UNCHANGED <<cpc, wire, decoded, streamVars, connVars, appVars>>

\* builder.build()
BuilderBuild ==
    /\ cpc = "building"
    /\ msg' = [msg EXCEPT !.val = RowDescription(msg.fields)]
    /\ cpc' = "built"
    /\ UNCHANGED <<wire, decoded, streamVars, connVars, appVars>>

\* row_description.field_names()
RowFieldNames ==
    /\ cpc = "built" /\ ~msg.named
    /\ msg' = [msg EXCEPT !.named = TRUE, !.names = field_names(msg.val)]
    /\ UNCHANGED <<cpc, wire, decoded, streamVars, connVars, appVars>>

\* row_description.encode()
RowEncode ==
    /\ cpc = "built" /\ wire = NoWire
    /\ wire' = RowDescription_encode(msg.val)
    /\ UNCHANGED <<cpc, msg, decoded, streamVars, connVars, appVars>>

NextBuilder ==
    \/ BuilderStringField
    \/ BuilderBuild
    \/ RowFieldNames
    \/ RowEncode

SpecBuilder == InitBuilder /\ [][NextBuilder]_vars

RECURSIVE NamesLength(_)
\* sum(len(ni) + 19): the name, its NUL and the 18 bytes of the six attributes.
NamesLength(ns) == IF ns = <<>> THEN 0 ELSE Len(Head(ns)) + 19 + NamesLength(Tail(ns))

\* C28: string_field(n1), ..., string_field(nk) on a fresh builder and build()
\* give a value with field_names() = [n1, ..., nk], every other attribute of
\* every field zero, and an encoding whose length field is
\* 6 + sum(len(ni) + 19).
C28_RowDescriptionBuilder ==
    /\ cpc = "built" =>
          /\ msg.val.kind = "RowDescription"
          /\ Len(msg.val.fields) = Len(msg.calls)
          /\ \A i \in 1..Len(msg.calls) :
                msg.val.fields[i] = [name |-> msg.calls[i], table_oid |-> 0, column_index |-> 0,
                                     data_type_oid |-> 0, data_type_size |-> 0,
                                     type_modifier |-> 0, format_code |-> 0]
    /\ msg.named => msg.names = msg.calls
    /\ wire # NoWire =>
          /\ wire.res = "Ok"
          /\ wire.bytes[1] = TagT
          /\ read_u32(wire.bytes, 1).val = 6 + NamesLength(msg.calls)
          /\ Len(wire.bytes) = 1 + 6 + NamesLength(msg.calls)
          /\ read_u16(wire.bytes, 5).val = Len(msg.calls)

\* The two-field description of test_multi_row_description's shape, with a
\* repeated name: "id", "id" built, named and encoded (length field 48).
C28_Witness ==
    /\ cpc = "built"
    /\ msg.calls = <<(<<105, 100>>), (<<105, 100>>)>>
    /\ msg.named
    /\ wire # NoWire
    /\ Len(wire.bytes) = 49

(***************************************************************************)
(* SpecProxy: one connection of the proxy (src/src/bin/proxy.rs).  The     *)
(* client's frames are in sock, read at rpos; the server's frames are in   *)
(* stream, read at spos; out is the list of send_message calls, pulls the  *)
(* list of reads from the client and calls the list of reads from the      *)
(* server.                                                                 *)
(***************************************************************************)
\* What the loop over frontend.read_messages() does after forwarding a message
\* that is not a Termination: it goes on to relay the backend's answer.
AfterForward_relay(m) == "relay"

\* if FrontendMessage::Termination == frontend_message { break; }
AfterForward(m) == IF m.kind = "Termination" THEN "drop" ELSE "relay"

\* The client's frames: SSLRequest or not, a Startup, then queries and
\* Terminations in any order.
ClientScripts ==
    {pre \o body : pre \in {<<Enc(SSLRequest), Enc(Startup_new)>>, <<Enc(Startup_new)>>},
                   body \in SeqsUpTo({Enc(SimpleQuery(<<65>>)), Enc(Termination)}, MaxFrames + 1)}

\* One answer of the server to a query.
ServerReplies ==
    {<<Enc(CommandComplete(<<65>>)), Enc(ReadyForQuery("Idle"))>>, <<Enc(ReadyForQuery("Idle"))>>,
     <<ErrorFrame, Enc(ReadyForQuery("Idle"))>>}

RECURSIVE Times(_, _)
Times(fs, n) == IF n = 0 THEN <<>> ELSE fs \o Times(fs, n - 1)

\* The server's frames: N, AuthenticationOk, ReadyForQuery and one more answer
\* than the client has room for queries.
ServerScripts ==
    {<<Enc(SSLResponse(TagN)), Enc(Authentication), Enc(ReadyForQuery("Idle"))>>
        \o Times(r, MaxFrames + 2) : r \in ServerReplies}

Sent(to, m) == [to |-> to, msg |-> m]

\* for mut frontend in pg.connections() { let mut backend = pg.connect(..)?;
InitProxy ==
    /\ adapter = "Proxy"
    /\ sent \in ClientScripts
    /\ sock = FrameBytes(sent)
    /\ arrived = Len(sock)
    /\ rpos = 0
    /\ apos = 0
    /\ iters = <<[kind |-> "Frontend_read_ssl_messages", finished |-> FALSE],
                 [kind |-> "Frontend_read_startup_messages", finished |-> FALSE],
                 [kind |-> "Frontend_read_messages", finished |-> FALSE]>>
    /\ pulls = <<>>
    /\ aborted = FALSE
    /\ dropped = FALSE
    /\ role = "backend"
    /\ frames \in ServerScripts
    /\ stream = FrameBytes(frames)
    /\ spos = 0
    /\ calls = <<>>
    /\ tasks = [pc |-> "ssl", current |-> NoMsg, inner |-> FALSE, terminated |-> FALSE,
                mark |-> 0, rmark |-> 0, smark |-> 0, open |-> {"backend", "frontend"}]
    /\ gates = <<>>
    /\ out = <<>>
    /\ CodecIdle

\* for ssl_request in frontend.read_ssl_messages()?
ProxySSLPull ==
    /\ adapter = "Proxy" /\ tasks.pc = "ssl"
    /\ \E r \in {Frontend_read_ssl_messages_next(iters[1].finished, sock, rpos)} :
          /\ rpos' = r.pos
          /\ pulls' = Append(pulls, Pulled(1, r))
          /\ iters' = [iters EXCEPT ![1].finished = r.finished]
          /\ aborted' = (r.vis = "Panic")
          /\ tasks' = [tasks EXCEPT !.current = r.msg,
                                    !.pc = CASE r.vis = "Some" -> "ssl_relay"
                                             [] r.vis = "None" -> "startup"
                                             [] OTHER -> "panicked"]
    /\ UNCHANGED <<adapter, dropped, sock, sent, arrived, apos, gates, out, codecVars, streamVars>>

\* backend.send_message(ssl_request)?;
\* if let Ok(ssl_response) = backend.read_ssl_message() { frontend.send_message(ssl_response)?; }
ProxySSLRelay ==
    /\ adapter = "Proxy" /\ tasks.pc = "ssl_relay"
    /\ \E o \in {SSLResponse_read_next_message(stream, spos)} :
          /\ spos' = o.pos
          /\ calls' = Append(calls, Called(o))
          /\ out' = out \o <<Sent("backend", tasks.current)>>
                        \o (IF o.res = "Ok" THEN <<Sent("frontend", o.msg)>> ELSE <<>>)
    /\ tasks' = [tasks EXCEPT !.pc = "ssl"]
    /\ UNCHANGED <<role, frames, stream, gates, codecVars, connVars>>

\* for startup_request in frontend.read_startup_messages()?
ProxyStartupPull ==
    /\ adapter = "Proxy" /\ tasks.pc = "startup"
    /\ \E r \in {Frontend_read_startup_messages_next(iters[2].finished, sock, rpos)} :
          /\ rpos' = r.pos
          /\ pulls' = Append(pulls, Pulled(2, r))
          /\ iters' = [iters EXCEPT ![2].finished = r.finished]
          /\ aborted' = (r.vis = "Panic")
          /\ tasks' = [tasks EXCEPT !.current = r.msg,
                                    !.pc = CASE r.vis = "Some" -> "startup_forward"
                                             [] r.vis = "None" -> "messages"
                                             [] OTHER -> "panicked"]
    /\ UNCHANGED <<adapter, dropped, sock, sent, arrived, apos, gates, out, codecVars, streamVars>>

\* backend.send_message(startup_request)?; backend.read_startup_messages()?
ProxyStartupForward ==
    /\ adapter = "Proxy" /\ tasks.pc = "startup_forward"
    /\ out' = Append(out, Sent("backend", tasks.current))
    /\ tasks' = [tasks EXCEPT !.pc = "startup_relay", !.inner = FALSE]
    /\ UNCHANGED <<gates, codecVars, connVars, streamVars>>

\* for startup_response in .. { frontend.send_message(startup_response)?; }
ProxyStartupRelay ==
    /\ adapter = "Proxy" /\ tasks.pc = "startup_relay"
    /\ \E r \in {Backend_read_startup_messages_next(tasks.inner, stream, spos)} :
          /\ spos' = r.pos
          /\ calls' = Append(calls, Called(r))
          /\ aborted' = (r.vis = "Panic")
          /\ out' = IF r.vis = "Some" THEN Append(out, Sent("frontend", r.msg)) ELSE out
          /\ tasks' = [tasks EXCEPT !.inner = r.finished,
                                    !.pc = CASE r.vis = "Some" -> "startup_relay"
                                             [] r.vis = "None" -> "startup"
                                             [] OTHER -> "panicked"]
    /\ UNCHANGED <<adapter, dropped, sock, sent, arrived, rpos, apos, iters, pulls, gates,
                   role, frames, stream, codecVars>>

\* for frontend_message in frontend.read_messages()?
ProxyMessagePull ==
    /\ adapter = "Proxy" /\ tasks.pc = "messages"
    /\ \E r \in {Frontend_read_messages_next(iters[3].finished, sock, rpos,
                                            Min(5, Len(sock) - rpos))} :
          /\ rpos' = r.pos
          /\ pulls' = Append(pulls, Pulled(3, r))
          /\ iters' = [iters EXCEPT ![3].finished = r.finished]
          /\ aborted' = (r.vis = "Panic")
          /\ tasks' = [tasks EXCEPT !.current = r.msg,
                                    !.terminated = (r.vis = "Some" /\ r.msg.kind = "Termination"),
                                    !.mark = Len(out), !.rmark = r.pos, !.smark = spos,
                                    !.pc = CASE r.vis = "Some" -> "forward"
                                             [] r.vis = "None" -> "drop"
                                             [] OTHER -> "panicked"]
    /\ UNCHANGED <<adapter, dropped, sock, sent, arrived, apos, gates, out, codecVars, streamVars>>

\* backend.send_message(frontend_message.clone())?; break on Termination,
\* otherwise backend.read_messages()?
ProxyMessageForward ==
    /\ adapter = "Proxy" /\ tasks.pc = "forward"
    /\ out' = Append(out, Sent("backend", tasks.current))
    /\ tasks' = [tasks EXCEPT !.pc = AfterForward(tasks.current), !.inner = FALSE]
    /\ UNCHANGED <<gates, codecVars, connVars, streamVars>>

\* for backend_message in .. { frontend.send_message(backend_message)?; }
ProxyMessageRelay ==
    /\ adapter = "Proxy" /\ tasks.pc = "relay"
    /\ \E r \in {Backend_read_messages_next(tasks.inner, stream, spos,
                                           Min(5, Len(stream) - spos))} :
          /\ spos' = r.pos
          /\ calls' = Append(calls, Called(r))
          /\ aborted' = (r.vis = "Panic")
          /\ out' = IF r.vis = "Some" THEN Append(out, Sent("frontend", r.msg)) ELSE out
          /\ tasks' = [tasks EXCEPT !.inner = r.finished,
                                    !.pc = CASE r.vis = "Some" -> "relay"
                                             [] r.vis = "None" -> "messages"
                                             [] OTHER -> "panicked"]
    /\ UNCHANGED <<adapter, dropped, sock, sent, arrived, rpos, apos, iters, pulls, gates,
                   role, frames, stream, codecVars>>

\* drop(backend); drop(frontend);
ProxyDrop ==
    /\ adapter = "Proxy" /\ tasks.pc = "drop"
    /\ tasks' = [tasks EXCEPT !.pc = "closed", !.open = {}]
    /\ dropped' = TRUE
    /\ UNCHANGED <<adapter, sock, sent, arrived, rpos, apos, iters, pulls, aborted, gates, out,
                   codecVars, streamVars>>

NextProxy ==
    \/ ProxySSLPull
    \/ ProxySSLRelay
    \/ ProxyStartupPull
    \/ ProxyStartupForward
    \/ ProxyStartupRelay
    \/ ProxyMessagePull
    \/ ProxyMessageForward
    \/ ProxyMessageRelay
    \/ ProxyDrop

SpecProxy == InitProxy /\ [][NextProxy]_vars

\* C26: once the proxy has read a frontend Termination, the one send that
\* follows is that Termination, to the backend; nothing more is sent or read
\* on either socket, and both connections are closed.
C26_ProxyTermination ==
    tasks.terminated =>
        /\ tasks.pc \in {"forward", "drop", "closed"}
        /\ tasks.pc = "forward" => /\ tasks.current = Termination
                                   /\ Len(out) = tasks.mark
        /\ tasks.pc \in {"drop", "closed"} =>
              /\ Len(out) = tasks.mark + 1
              /\ out[Len(out)] = Sent("backend", Termination)
        /\ rpos = tasks.rmark
        /\ spos = tasks.smark
        /\ tasks.pc = "closed" <=> tasks.open = {}
        /\ ENABLED NextProxy <=> tasks.pc # "closed"

\* A connection closed after a query was relayed and a Termination forwarded,
\* with frames of both peers left unread.
C26_Witness ==
    /\ adapter = "Proxy"
    /\ tasks.terminated
    /\ tasks.pc = "closed"
    /\ tasks.open = {}
    /\ \E k \in 1..Len(out) : out[k].to = "frontend" /\ out[k].msg.kind = "CommandComplete"
    /\ rpos < Len(sock)
    /\ spos < Len(stream)

\* The messages sent to one side, in the order of the send_message calls.
SentTo(side) == SelectSeq(out, LAMBDA e : e.to = side)

\* The reads from the server that returned a message.
Answered == SelectSeq(calls, LAMBDA c : c.res = "Ok")

\* C36: proxy relay transparency. The bytes send_message writes for a message
\* the proxy relays, message.encode(), are the bytes it read for that message
\* from the other side, and the messages are sent in the order they were read.
C36_RelayTransparency ==
    /\ \A j \in 1..Len(pulls) :
           pulls[j].vis = "Some" =>
               encode(pulls[j].msg).bytes = SubSeq(sock, pulls[j].before + 1, pulls[j].after)
    /\ \A c \in 1..Len(calls) :
           calls[c].res = "Ok" =>
               encode(calls[c].msg).bytes = SubSeq(stream, calls[c].start + 1, calls[c].pos)
    /\ Len(SentTo("backend")) <= Len(Yielded)
    /\ \A k \in 1..Len(SentTo("backend")) : SentTo("backend")[k].msg = Yielded[k].msg
    /\ Len(SentTo("frontend")) <= Len(Answered)
    /\ \A k \in 1..Len(SentTo("frontend")) : SentTo("frontend")[k].msg = Answered[k].msg

(***************************************************************************)
(* SpecServer: one connection of the example server                        *)
(* (src/src/bin/server.rs).  The client's frames are in sock, read at      *)
(* rpos; out is the list of frontend.send_message calls.                   *)
(***************************************************************************)
\* "greeting"
Str_greeting == <<103, 114, 101, 101, 116, 105, 110, 103>>

\* "Hello, world!"
Str_hello == <<72, 101, 108, 108, 111, 44, 32, 119, 111, 114, 108, 100, 33>>

\* "GREETING"
Str_GREETING == <<71, 82, 69, 69, 84, 73, 78, 71>>

\* The answer to a query with the DataRow left out.
QueryReply_no_row(step) ==
    CASE step = 1 -> RowDescription(<<string_field(Str_greeting)>>)
      [] step = 2 -> CommandComplete(Str_GREETING)
      [] OTHER -> ReadyForQuery("Idle")

\* The arm FrontendMessage::SimpleQuery(_query): the message of the step-th
\* frontend.send_message call.
QueryReply(step) ==
    CASE step = 1 -> RowDescription(<<string_field(Str_greeting)>>)
      [] step = 2 -> DataRow(<<Some(Str_hello)>>)
      [] step = 3 -> CommandComplete(Str_GREETING)
      [] OTHER -> ReadyForQuery("Idle")

\* 'connection: for mut frontend in pg.connections()
InitServer ==
    /\ adapter = "Server"
    /\ sent \in ClientScripts
    /\ sock = FrameBytes(sent)
    /\ arrived = Len(sock)
    /\ rpos = 0
    /\ apos = 0
    /\ iters = <<[kind |-> "Frontend_read_ssl_messages", finished |-> FALSE],
                 [kind |-> "Frontend_read_startup_messages", finished |-> FALSE],
                 [kind |-> "Frontend_read_messages", finished |-> FALSE]>>
    /\ pulls = <<>>
    /\ aborted = FALSE
    /\ dropped = FALSE
    /\ tasks = [pc |-> "ssl", current |-> NoMsg, step |-> 0, ssl |-> 0, startups |-> 0,
                queries |-> 0]
    /\ gates = <<>>
    /\ out = <<>>
    /\ CodecIdle
    /\ StreamIdle

\* for ssl_request in frontend.read_ssl_messages()?
ServerSSLPull ==
    /\ adapter = "Server" /\ tasks.pc = "ssl"
    /\ \E r \in {Frontend_read_ssl_messages_next(iters[1].finished, sock, rpos)} :
          /\ rpos' = r.pos
          /\ iters' = [iters EXCEPT ![1].finished = r.finished]
          /\ aborted' = (r.vis = "Panic")
          /\ tasks' = [tasks EXCEPT !.current = r.msg,
                                    !.ssl = IF r.vis = "Some" THEN @ + 1 ELSE @,
                                    !.pc = CASE r.vis = "Some" -> "ssl_reply"
                                             [] r.vis = "None" -> "startup"
                                             [] OTHER -> "panicked"]
    /\ UNCHANGED <<adapter, dropped, sock, sent, arrived, apos, pulls, gates, out, codecVars, streamVars>>

\* if SSLRequest == ssl_request { frontend.send_message(SSLResponse::N)?; }
ServerSSLReply ==
    /\ adapter = "Server" /\ tasks.pc = "ssl_reply"
    /\ out' = IF tasks.current = SSLRequest THEN Append(out, SSLResponse(TagN)) ELSE out
    /\ tasks' = [tasks EXCEPT !.pc = "ssl"]
    /\ UNCHANGED <<gates, codecVars, connVars, streamVars>>

\* for startup_request in frontend.read_startup_messages()?
ServerStartupPull ==
    /\ adapter = "Server" /\ tasks.pc = "startup"
    /\ \E r \in {Frontend_read_startup_messages_next(iters[2].finished, sock, rpos)} :
          /\ rpos' = r.pos
          /\ iters' = [iters EXCEPT ![2].finished = r.finished]
          /\ aborted' = (r.vis = "Panic")
          /\ tasks' = [tasks EXCEPT !.current = r.msg,
                                    !.pc = CASE r.vis = "Some" -> "startup_reply"
                                             [] r.vis = "None" -> "messages"
                                             [] OTHER -> "panicked"]
    /\ UNCHANGED <<adapter, dropped, sock, sent, arrived, apos, pulls, gates, out, codecVars, streamVars>>

\* if version == (3, 0) { send Authentication::Ok; send ReadyForQuery{Idle}; break; }
\* continue 'connection;
ServerStartupReply ==
    /\ adapter = "Server" /\ tasks.pc = "startup_reply"
    /\ IF /\ tasks.current.protocol_major_version = PROTO_MAJOR
          /\ tasks.current.protocol_minor_version = PROTO_MINOR
       THEN /\ out' = out \o <<Authentication, ReadyForQuery("Idle")>>
            /\ tasks' = [tasks EXCEPT !.pc = "messages", !.startups = @ + 1]
       ELSE /\ out' = out
            /\ tasks' = [tasks EXCEPT !.pc = "closed"]
    /\ UNCHANGED <<gates, codecVars, connVars, streamVars>>

\* for message in frontend.read_messages()?
ServerMessagePull ==
    /\ adapter = "Server" /\ tasks.pc = "messages"
    /\ \E r \in {Frontend_read_messages_next(iters[3].finished, sock, rpos,
                                            Min(5, Len(sock) - rpos))} :
          /\ rpos' = r.pos
          /\ iters' = [iters EXCEPT ![3].finished = r.finished]
          /\ aborted' = (r.vis = "Panic")
          /\ tasks' = [tasks EXCEPT
                          !.current = r.msg,
                          !.step = 1,
                          !.queries = IF r.vis = "Some" /\ r.msg.kind = "SimpleQuery"
                                      THEN @ + 1 ELSE @,
                          !.pc = CASE r.vis = "Some" /\ r.msg.kind = "SimpleQuery" -> "reply"
                                   [] r.vis = "Some" /\ r.msg.kind = "Termination" -> "closed"
                                   [] r.vis = "None" -> "closed"
                                   [] OTHER -> "panicked"]
    /\ UNCHANGED <<adapter, dropped, sock, sent, arrived, apos, pulls, gates, out, codecVars, streamVars>>

\* One frontend.send_message call of the arm FrontendMessage::SimpleQuery.
ServerQuerySend ==
    /\ adapter = "Server" /\ tasks.pc = "reply"
    /\ \E m \in {QueryReply(tasks.step)} :
          /\ out' = Append(out, m)
          /\ tasks' = [tasks EXCEPT !.step = @ + 1,
                                    !.pc = IF m.kind = "ReadyForQuery" THEN "messages" ELSE "reply"]
    /\ UNCHANGED <<gates, codecVars, connVars, streamVars>>

NextServer ==
    \/ ServerSSLPull
    \/ ServerSSLReply
    \/ ServerStartupPull
    \/ ServerStartupReply
    \/ ServerMessagePull
    \/ ServerQuerySend

SpecServer == InitServer /\ [][NextServer]_vars

\* The four messages that answer one query.
Cycle ==
    <<RowDescription(<<[name |-> Str_greeting, table_oid |-> 0, column_index |-> 0,
                        data_type_oid |-> 0, data_type_size |-> 0, type_modifier |-> 0,
                        format_code |-> 0]>>),
      DataRow(<<[some |-> TRUE, value |-> Str_hello]>>),
      CommandComplete(Str_GREETING),
      ReadyForQuery("Idle")>>

\* C27: the server's output is N per SSLRequest, AuthenticationOk and
\* ReadyForQuery{Idle} once per accepted Startup, and for every SimpleQuery
\* received the four messages of the cycle, in order and complete before the
\* next frontend message is read.
C27_ServerQueryCycle ==
    LET ack == Times(<<SSLResponse(TagN)>>, tasks.ssl - (IF tasks.pc = "ssl_reply" THEN 1 ELSE 0))
                  \o Times(<<Authentication, ReadyForQuery("Idle")>>, tasks.startups)
        done == tasks.queries - (IF tasks.pc = "reply" THEN 1 ELSE 0)
        part == IF tasks.pc = "reply" THEN SubSeq(Cycle, 1, tasks.step - 1) ELSE <<>>
    IN /\ out = ack \o Times(Cycle, done) \o part
       /\ tasks.startups <= 1
       /\ tasks.pc = "reply" => tasks.step \in 1..4
       /\ tasks.pc = "messages" => Len(out) = Len(ack) + 4 * tasks.queries

\* Two queries answered in full after a Startup was acknowledged.
C27_Witness ==
    /\ adapter = "Server"
    /\ tasks.pc = "messages"
    /\ tasks.startups = 1
    /\ tasks.queries = 2
    /\ Len(out) = 11

(***************************************************************************)
(* SpecPoll: one task polls the futures of an                              *)
(* AsyncBackend::read_startup_messages sequence while the peer's bytes     *)
(* arrive segment by segment.  apos is the position of the BufReader.      *)
(***************************************************************************)
PollFrames ==
    {Enc(Authentication), Enc(ParameterStatus(<<65>>, <<66>>)), Enc(ReadyForQuery("Idle"))}

\* The bytes StartupResponse::read_next_message_async reads from position p
\* before it returns, as far as the a bytes that have arrived tell: the type
\* byte and the length, then length - 4 bytes of payload.
Needed(s, p, a) ==
    IF a - p < 5 THEN 5
    ELSE IF BE32(s, p + 2) < 4 THEN 5
    ELSE 1 + BE32(s, p + 2)

\* NextStartupResponse::poll with the bytes s[1..a] arrived and the reader at
\* p.  The decoder's future is made by this call and dropped when it returns:
\* when the bytes run out before the frame is complete the poll is Pending,
\* and the bytes the future had taken from the reader go with it.
NextStartupResponse_poll(finished, s, p, a) ==
    IF finished THEN Ended(p)
    ELSE IF a < Len(s) /\ a - p < Needed(s, p, a)
         THEN [vis |-> "Pending", res |-> "Pending", msg |-> NoMsg, pos |-> a,
               finished |-> FALSE, read |-> a > p]
         ELSE AsyncBackend_read_startup_messages_pull(FALSE, s, p)

InitPoll ==
    /\ adapter = "AsyncBackend"
    /\ sent \in UNION {[1..n -> PollFrames] : n \in 1..MaxFrames}
    /\ sock = FrameBytes(sent)
    /\ arrived = 0
    /\ rpos = 0
    /\ apos = 0
    /\ iters = <<[kind |-> "AsyncBackend_read_startup_messages", finished |-> FALSE]>>
    /\ pulls = <<>>
    /\ aborted = FALSE
    /\ dropped = FALSE
    /\ tasks = [polling |-> FALSE, start |-> 0, lost |-> FALSE]
    /\ gates = <<>>
    /\ out = <<>>
    /\ CodecIdle
    /\ StreamIdle

\* A poll that returns Poll::Pending.
PollPending ==
    /\ adapter = "AsyncBackend" /\ ~aborted /\ Len(pulls) < MaxPulls
    /\ \E r \in {NextStartupResponse_poll(iters[1].finished, sock, apos, arrived)} :
          /\ r.vis = "Pending"
          /\ apos' = r.pos
          /\ tasks' = [polling |-> TRUE,
                       start |-> IF tasks.polling THEN tasks.start ELSE apos,
                       lost |-> tasks.lost \/ r.read]
    /\ UNCHANGED <<adapter, dropped, sock, sent, arrived, rpos, iters, pulls, aborted, gates, out,
                   codecVars, streamVars>>

\* A poll that returns Poll::Ready: the pull is over.
PollReady ==
    /\ adapter = "AsyncBackend" /\ ~aborted /\ Len(pulls) < MaxPulls
    /\ \E r \in {NextStartupResponse_poll(iters[1].finished, sock, apos, arrived)} :
          /\ r.vis # "Pending"
          /\ apos' = r.pos
          /\ iters' = [iters EXCEPT ![1].finished = r.finished]
          /\ aborted' = (r.vis = "Panic")
          /\ pulls' = Append(pulls, [iter |-> 1, kind |-> iters[1].kind, vis |-> r.vis,
                                     res |-> r.res, msg |-> r.msg,
                                     before |-> IF tasks.polling THEN tasks.start ELSE apos,
                                     after |-> r.pos, avail |-> arrived, read |-> r.read,
                                     dropped |-> dropped, lost |-> tasks.lost])
          /\ tasks' = [polling |-> FALSE, start |-> r.pos, lost |-> FALSE]
    /\ UNCHANGED <<adapter, dropped, sock, sent, arrived, rpos, gates, out, codecVars, streamVars>>

NextPoll ==
    \/ Deliver
    \/ PollPending
    \/ PollReady

SpecPoll == InitPoll /\ [][NextPoll]_vars

\* C30: whenever the blocking decoder, reading the same bytes from the
\* position where a cooperative pull started, yields a message, the pull
\* yields that message and leaves the stream at the same position, however the
\* bytes were split into segments and however often the pull was Pending.
C30_SameAsBlocking ==
    \A j \in 1..Len(pulls) :
        LET b == Backend_read_startup_messages_next(FALSE, sock, pulls[j].before) IN
        (pulls[j].read /\ b.vis = "Some") =>
            /\ pulls[j].vis = "Some"
            /\ pulls[j].msg = b.msg
            /\ pulls[j].after = b.pos

(***************************************************************************)
(* SpecFlag: sequences of AsyncBackend::read_startup_messages, the futures *)
(* their next() hands out, and the polls of those futures in any order.    *)
(* tasks is the list of futures, one for each polling task, out the set of *)
(* next() calls.  Every byte has arrived.                                  *)
(***************************************************************************)
FlagFrames == {Enc(Authentication), Enc(ReadyForQuery("Idle")), UnknownTypeFrame}

\* What a decoder of type Result<BackendMessage, _> can hand to
\* NextBackendMessage::poll when its future is Ready: a message, with the
\* reader at the end of the bytes, or an error, with the reader left where it
\* was.  The decoder
\* that poll names, BackendMessage::read_next_message_async, has no
\* definition in the crate, so every outcome of its type is allowed.
DecoderOutcomes(s, p) ==
    {Out("Ok", m, Len(s)) : m \in {ReadyForQuery("Idle"), CommandComplete(<<65>>)}}
        \cup {Out("Err", NoMsg, p)}

\* NextBackendMessage::poll (async.rs:185-207) with the decoder's outcome o.
NextBackendMessage_poll(finished, o, p) ==
    IF finished THEN Ended(p) ELSE
    CASE o.res = "Ok" -> Item("Some", o, o.msg.kind = "ReadyForQuery")
      [] o.res = "Err" -> Item("Err", o, TRUE)
      [] OTHER -> Item("Panic", o, FALSE)

InitFlag ==
    /\ adapter = "AsyncBackend"
    /\ sent \in [1..MaxFrames -> FlagFrames]
    /\ sock = FrameBytes(sent)
    /\ arrived = Len(sock)
    /\ rpos = 0
    /\ apos = 0
    /\ iters = <<>>
    /\ pulls = <<>>
    /\ aborted = FALSE
    /\ dropped = FALSE
    /\ tasks = <<>>
    /\ gates = [reader |-> {}, writer |-> {}]
    /\ out = {}
    /\ CodecIdle
    /\ StreamIdle

\* AsyncBackend::read_startup_messages: finished: Arc::new(AtomicBool::new(false))
AsyncBackend_read_startup_messages ==
    /\ adapter = "AsyncBackend" /\ ~aborted
    /\ Len(iters) < MaxIters
    /\ iters' = Opened("AsyncBackend_read_startup_messages")
    /\ UNCHANGED <<adapter, dropped, sock, sent, arrived, rpos, apos, pulls, aborted,
                   appVars, codecVars, streamVars>>

\* AsyncBackend::read_messages: finished: Arc::new(AtomicBool::new(false))
AsyncBackend_read_messages ==
    /\ adapter = "AsyncBackend" /\ ~aborted
    /\ Len(iters) < MaxIters
    /\ iters' = Opened("AsyncBackend_read_messages")
    /\ UNCHANGED <<adapter, dropped, sock, sent, arrived, rpos, apos, pulls, aborted,
                   appVars, codecVars, streamVars>>

\* MessageIterator::next: None when the flag is set, otherwise a future that
\* shares the reader and the flag.
MessageIterator_next ==
    /\ adapter = "AsyncBackend" /\ ~aborted
    /\ \E i \in 1..Len(iters) :
          /\ iters[i].finished \/ Len(tasks) < Cardinality(Pullers)
          /\ out' = out \cup {[iter |-> i, flag |-> iters[i].finished,
                                some |-> ~iters[i].finished]}
          /\ tasks' = IF iters[i].finished THEN tasks
                      ELSE Append(tasks, [iter |-> i, pc |-> "created", flag |-> FALSE,
                                          locked |-> FALSE, vis |-> "none", msg |-> NoMsg,
                                          before |-> 0, after |-> 0])
    /\ UNCHANGED <<gates, connVars, codecVars, streamVars>>

\* NextStartupResponse::poll begins: if self.finished.load(..) { return Poll::Ready(Ok(None)); }
FuturePollStart ==
    /\ adapter = "AsyncBackend" /\ ~aborted
    /\ \E f \in 1..Len(tasks) :
          /\ tasks[f].pc = "created"
          /\ \E r \in IF iters[tasks[f].iter].kind = "AsyncBackend_read_messages"
                      THEN {NextBackendMessage_poll(iters[tasks[f].iter].finished,
                                                    Out("Err", NoMsg, apos), apos)}
                      ELSE {NextStartupResponse_poll(iters[tasks[f].iter].finished, sock, apos,
                                                     arrived)} :
                tasks' = [tasks EXCEPT
                             ![f].flag = iters[tasks[f].iter].finished,
                             ![f].before = apos,
                             ![f].after = apos,
                             ![f].pc = IF r.read THEN "checked" ELSE "done",
                             ![f].vis = IF r.read THEN "none" ELSE r.vis]
    /\ UNCHANGED <<gates, out, connVars, codecVars, streamVars>>

\* let mut reader = self.reader.lock().unwrap();
FuturePollLock ==
    /\ adapter = "AsyncBackend" /\ ~aborted
    /\ Mutex_free(Gate("poll"))
    /\ \E f \in 1..Len(tasks) :
          /\ tasks[f].pc = "checked"
          /\ tasks' = [tasks EXCEPT ![f].pc = "locked", ![f].locked = TRUE]
          /\ gates' = [gates EXCEPT ![Gate("poll")] = {f}]
    /\ UNCHANGED <<out, connVars, codecVars, streamVars>>

\* The decoder's future is polled and is Ready; the arms store the flag; the
\* guard is dropped.
FuturePollRead ==
    /\ adapter = "AsyncBackend" /\ ~aborted
    /\ \E f \in 1..Len(tasks) :
          /\ tasks[f].pc = "locked"
          /\ \E r \in IF iters[tasks[f].iter].kind = "AsyncBackend_read_messages"
                      THEN {NextBackendMessage_poll(FALSE, o, apos) : o \in DecoderOutcomes(sock, apos)}
                      ELSE {AsyncBackend_read_startup_messages_pull(FALSE, sock, apos)} :
                /\ apos' = r.pos
                /\ aborted' = (r.vis = "Panic")
                /\ iters' = [iters EXCEPT ![tasks[f].iter].finished = @ \/ r.finished]
                /\ tasks' = [tasks EXCEPT ![f].pc = "done", ![f].vis = r.vis, ![f].msg = r.msg,
                                          ![f].before = apos, ![f].after = r.pos]
          /\ gates' = [gates EXCEPT ![Gate("poll")] = {}]
    /\ UNCHANGED <<adapter, dropped, sock, sent, arrived, rpos, pulls, out, codecVars, streamVars>>

NextFlag ==
    \/ AsyncBackend_read_startup_messages
    \/ AsyncBackend_read_messages
    \/ MessageIterator_next
    \/ FuturePollStart
    \/ FuturePollLock
    \/ FuturePollRead

SpecFlag == InitFlag /\ [][NextFlag]_vars

\* Future f has resolved to ReadyForQuery or to an error.
Resolved(f) ==
    /\ tasks[f].pc = "done"
    /\ \/ tasks[f].vis = "Some" /\ tasks[f].msg.kind = "ReadyForQuery"
       \/ tasks[f].vis = "Err"

\* C31: cooperative phase termination. The flag of a sequence is set exactly
\* when one of its futures has resolved to ReadyForQuery or to an error; a
\* next() that finds it set returns None; a future whose poll begins with it
\* set resolves to Ok(None) without locking the reader or consuming a byte;
\* a sequence with no such future has its flag clear.
C31_FlagEndsSequence ==
    /\ \A i \in 1..Len(iters) :
          iters[i].finished <=> \E f \in 1..Len(tasks) : tasks[f].iter = i /\ Resolved(f)
    /\ \A c \in out : c.flag => ~c.some
    /\ \A f \in 1..Len(tasks) :
          (tasks[f].pc # "created" /\ tasks[f].flag) =>
              /\ tasks[f].pc = "done"
              /\ tasks[f].vis = "None"
              /\ ~tasks[f].locked
              /\ tasks[f].after = tasks[f].before

\* A future made before the ReadyForQuery of its sequence and polled after it
\* has resolved to Ok(None), a second sequence exists with its flag clear, and
\* next() of the first sequence has returned None.
C31_Witness ==
    /\ Len(iters) = 2
    /\ iters[1].finished /\ ~iters[2].finished
    /\ \E f \in 1..Len(tasks) : \E g \in 1..Len(tasks) :
          /\ f < g
          /\ tasks[f].iter = 1 /\ tasks[g].iter = 1
          /\ Resolved(f)
          /\ tasks[g].pc = "done" /\ tasks[g].flag /\ tasks[g].vis = "None"
    /\ \E c \in out : c.iter = 1 /\ ~c.some

(***************************************************************************)
(* SpecLength: one frame whose length field is around the size of its own  *)
(* header is handed to one decoder through a Cursor.                       *)
(***************************************************************************)
\* A typed frame that declares length l, followed by four zero bytes.
ShortTyped(type, l) ==
    [bytes |-> <<type>> \o U32(l) \o Zeros(4), msg |-> NoMsg, class |-> "short",
     L |-> l, header |-> 4]

\* A pre-startup frame that declares length l, followed by four zero bytes.
ShortTriple(l, ma, mi) ==
    [bytes |-> U32(l) \o U16(ma) \o U16(mi) \o Zeros(4), msg |-> NoMsg, class |-> "short",
     L |-> l, header |-> 8]

\* An SSLRequest frame that declares length l: SSLRequest::read_next_message
\* takes length - 4 bytes and finds the two version numbers in them.
ShortSSLRequest(l) ==
    [bytes |-> U32(l) \o U16(SSL_MAJOR) \o U16(SSL_MINOR) \o Zeros(4), msg |-> NoMsg,
     class |-> "short", L |-> l, header |-> 4]

LengthFrames(r) ==
    CASE r = "BackendMessage" -> {ShortTyped(t, l) : t \in {TagZ, TagC, TagE}, l \in 0..5}
      [] r = "FrontendMessage" -> {ShortTyped(t, l) : t \in {TagQ, TagX}, l \in 0..5}
      [] r = "StartupResponse" -> {ShortTyped(t, l) : t \in {TagR, TagZ}, l \in 0..5}
      [] r = "StartupResponseAsync" -> {ShortTyped(t, l) : t \in {TagR, TagZ}, l \in 0..5}
      [] r = "SSLRequest" -> {ShortSSLRequest(l) : l \in 0..8}
      [] r = "StartupRequest" ->
             {ShortTriple(l, v[1], v[2]) : l \in 0..9,
                  v \in {<<PROTO_MAJOR, PROTO_MINOR>>, <<SSL_MAJOR, SSL_MINOR>>,
                         <<SSL_MAJOR, CANCEL_MINOR>>}}
      [] OTHER -> {ShortTriple(l, PROTO_MAJOR, PROTO_MINOR) : l \in 0..9}

InitLength ==
    /\ role \in {"BackendMessage", "FrontendMessage", "StartupResponse",
                 "StartupResponseAsync", "SSLRequest", "StartupRequest", "Startup"}
    /\ frames \in {<<f>> : f \in LengthFrames(role)}
    /\ stream = FrameBytes(frames)
    /\ spos = 0
    /\ calls = <<>>
    /\ CodecIdle
    /\ ConnIdle
    /\ AppIdle

\* FrontendMessage::read_next_message(&mut cursor)
ReadFrontendMessage ==
    /\ role = "FrontendMessage" /\ calls = <<>>
    /\ \E o \in {FrontendMessage_read_next_message(stream, spos, Cursor_read(stream, spos, 5))} :
          /\ calls' = Append(calls, Called(o))
          /\ spos' = o.pos
    /\ UNCHANGED <<role, frames, stream, codecVars, connVars, appVars>>

\* SSLRequest::read_next_message(&mut cursor)
ReadSSLRequest ==
    /\ role = "SSLRequest" /\ calls = <<>>
    /\ \E o \in {SSLRequest_read_next_message(stream, spos)} :
          /\ calls' = Append(calls, Called(o))
          /\ spos' = o.pos
    /\ UNCHANGED <<role, frames, stream, codecVars, connVars, appVars>>

\* Startup::read_next_message(&mut cursor)
ReadStartupFrame ==
    /\ role = "Startup" /\ calls = <<>>
    /\ \E o \in {Startup_read_next_message(stream, spos)} :
          /\ calls' = Append(calls, Called(o))
          /\ spos' = o.pos
    /\ UNCHANGED <<role, frames, stream, codecVars, connVars, appVars>>

NextLength ==
    \/ ReadBackendMessage
    \/ ReadFrontendMessage
    \/ ReadStartupResponse
    \/ ReadStartupResponseAsync
    \/ ReadSSLRequest
    \/ ReadStartupRequest
    \/ ReadStartupFrame

SpecLength == InitLength /\ [][NextLength]_vars

\* C32: undersized length field. A frame whose declared length is smaller
\* than its own header (4, or 8 for StartupRequest and Startup) is reported by
\* the decoder as an error value: the call returns Err, it does not panic and
\* it reads no byte count obtained by subtracting below zero.
C32_UndersizedLength ==
    (calls # <<>> /\ TheFrame.L < TheFrame.header) => TheCall.res = "Err"

(***************************************************************************)
(* SpecClient: one run of the blocking client (src/src/bin/client.rs).     *)
(* The server's bytes are in sock, read at rpos, and the server has closed *)
(* after them; out is the list of backend.send_message calls.              *)
(***************************************************************************)
\* "user"
Str_user == <<117, 115, 101, 114>>

\* "database"
Str_database == <<100, 97, 116, 97, 98, 97, 115, 101>>

\* The Startup message main builds from --user A --database B; the two
\* fixed parameters application_name and client_encoding are left out.
ClientStartup ==
    add_parameter(add_parameter(Startup_new, Str_user, <<65>>), Str_database, <<66>>)

\* What the server writes after the client's Startup.
ClientStartupScripts ==
    SeqsUpTo({Enc(Authentication), Enc(ReadyForQuery("Idle")),
              Enc(ReadyForQuery("InTransaction")), StatusFrame(StatusE),
              UnknownTypeFrame}, MaxFrames)

\* What the server writes after a query.
ClientQueryReplies ==
    {<<>>,
     <<Enc(CommandComplete(<<65>>)), Enc(ReadyForQuery("Idle"))>>,
     <<Enc(EmptyQueryResponse), Enc(ReadyForQuery("Idle"))>>}

\* The answers to SSLRequest: 'S', 'N', 'E', or nothing.
SSLAnswers == {<<TagS>>, <<TagN>>, <<TagE>>, <<>>}

InitClient ==
    /\ adapter = "Client"
    /\ \E ssl \in BOOLEAN : \E a \in SSLAnswers : \E q \in ClientQueryReplies :
       \E st \in ClientStartupScripts :
          /\ ssl \/ a = <<>>
          /\ sent = st \o q
          /\ sock = a \o FrameBytes(st \o q)
          /\ tasks = [pc |-> "main", request_ssl |-> ssl, answer |-> <<>>, ready |-> FALSE,
                      prompt_prefix |-> "", row_description |-> NoMsg, queries |-> 0]
    /\ arrived = Len(sock)
    /\ rpos = 0
    /\ apos = 0
    /\ iters = <<>>
    /\ pulls = <<>>
    /\ aborted = FALSE
    /\ dropped = FALSE
    /\ gates = <<>>
    /\ out = <<>>
    /\ CodecIdle
    /\ StreamIdle

\* if args.request_ssl { backend.send_message(SSLRequest)?; .. }
ClientSSLRequest ==
    /\ adapter = "Client" /\ tasks.pc = "main"
    /\ out' = IF tasks.request_ssl THEN Append(out, Sent("backend", SSLRequest)) ELSE out
    /\ tasks' = [tasks EXCEPT !.pc = IF tasks.request_ssl THEN "ssl_answer" ELSE "startup"]
    /\ UNCHANGED <<gates, connVars, codecVars, streamVars>>

\* let SSLResponse::N = backend.read_ssl_message()? else { return Err(..) };
ClientSSLAnswer ==
    /\ adapter = "Client" /\ tasks.pc = "ssl_answer"
    /\ \E o \in {SSLResponse_read_next_message(sock, rpos)} :
          /\ rpos' = o.pos
          /\ tasks' = [tasks EXCEPT
                          !.answer = SubSeq(sock, rpos + 1, o.pos),
                          !.pc = IF o.res = "Ok" /\ o.msg = SSLResponse(TagN)
                                 THEN "startup" ELSE "failed"]
    /\ UNCHANGED <<adapter, dropped, sock, sent, arrived, apos, iters, pulls, aborted, gates,
                   out, codecVars, streamVars>>

\* backend.send_message(startup_message)?; do_startup: backend.read_startup_messages()?
ClientSendStartup ==
    /\ adapter = "Client" /\ tasks.pc = "startup"
    /\ out' = Append(out, Sent("backend", ClientStartup))
    /\ iters' = Opened("Backend_read_startup_messages")
    /\ tasks' = [tasks EXCEPT !.pc = "do_startup"]
    /\ UNCHANGED <<adapter, dropped, sock, sent, arrived, rpos, apos, pulls, aborted, gates,
                   codecVars, streamVars>>

\* do_startup: one turn of the for loop.  The loop ends, and do_startup
\* returns Ok(()), when next() returns None and at the break of the
\* ReadyForQuery arm; todo!() panics.
ClientStartupPull ==
    /\ adapter = "Client" /\ tasks.pc = "do_startup"
    /\ \E r \in {Backend_read_startup_messages_next(iters[Len(iters)].finished, sock, rpos)} :
          /\ rpos' = r.pos
          /\ iters' = [iters EXCEPT ![Len(iters)].finished = r.finished]
          /\ pulls' = Append(pulls, Pulled(Len(iters), r))
          /\ aborted' = (r.vis = "Panic")
          /\ tasks' =
                CASE r.vis = "Panic" -> [tasks EXCEPT !.pc = "panicked"]
                  [] r.vis = "None" -> [tasks EXCEPT !.pc = "prompt"]
                  [] r.msg.kind = "ReadyForQuery" /\ r.msg.transaction_status = "Idle" ->
                         [tasks EXCEPT !.pc = "prompt", !.ready = TRUE, !.prompt_prefix = "=>"]
                  [] r.msg.kind = "ReadyForQuery"
                         /\ r.msg.transaction_status = "InTransaction" ->
                         [tasks EXCEPT !.pc = "prompt", !.ready = TRUE, !.prompt_prefix = "*>"]
                  [] r.msg.kind = "ReadyForQuery" -> [tasks EXCEPT !.pc = "panicked"]
                  [] OTHER -> tasks
    /\ UNCHANGED <<adapter, dropped, sock, sent, arrived, apos, gates, out, codecVars,
                   streamVars>>

\* prompt.readline: Ok(line) => do_query: backend.send_message(query)?;
\* backend.read_messages()?
ClientQuerySend ==
    /\ adapter = "Client" /\ tasks.pc = "prompt"
    /\ tasks.queries < MaxFrames
    /\ out' = Append(out, Sent("backend", SimpleQuery(<<65>>)))
    /\ iters' = Opened("Backend_read_messages")
    /\ tasks' = [tasks EXCEPT !.pc = "do_query", !.queries = @ + 1]
    /\ UNCHANGED <<adapter, dropped, sock, sent, arrived, rpos, apos, pulls, aborted, gates,
                   codecVars, streamVars>>

\* do_query: one turn of the for loop.
ClientQueryPull ==
    /\ adapter = "Client" /\ tasks.pc = "do_query"
    /\ \E r \in {Backend_read_messages_next(iters[Len(iters)].finished, sock, rpos,
                                            TcpStream_read(5))} :
          /\ rpos' = r.pos
          /\ iters' = [iters EXCEPT ![Len(iters)].finished = r.finished]
          /\ pulls' = Append(pulls, Pulled(Len(iters), r))
          /\ aborted' = (r.vis = "Panic")
          /\ tasks' =
                CASE r.vis = "Panic" -> [tasks EXCEPT !.pc = "panicked"]
                  [] r.vis = "None" -> [tasks EXCEPT !.pc = "prompt"]
                  [] r.msg.kind = "RowDescription" -> [tasks EXCEPT !.row_description = r.msg]
                  [] r.msg.kind \in {"CommandComplete", "EmptyQueryResponse"} ->
                         [tasks EXCEPT !.row_description = NoMsg]
                  [] r.msg.kind \in {"DataRow", "NoticeMessage"} -> tasks
                  [] OTHER -> [tasks EXCEPT !.pc = "prompt"]
    /\ UNCHANGED <<adapter, dropped, sock, sent, arrived, apos, gates, out, codecVars,
                   streamVars>>

\* prompt.readline: Err(err) => break; backend.send_message(Termination)?; Ok(())
ClientTerminate ==
    /\ adapter = "Client" /\ tasks.pc = "prompt"
    /\ out' = Append(out, Sent("backend", Termination))
    /\ tasks' = [tasks EXCEPT !.pc = "done"]
    /\ UNCHANGED <<gates, connVars, codecVars, streamVars>>

NextClient ==
    \/ ClientSSLRequest
    \/ ClientSSLAnswer
    \/ ClientSendStartup
    \/ ClientStartupPull
    \/ ClientQuerySend
    \/ ClientQueryPull
    \/ ClientTerminate

SpecClient == InitClient /\ [][NextClient]_vars

\* C34: startup precedes operation in the blocking client. A SimpleQuery is
\* sent only after the startup sequence has yielded a ReadyForQuery; when the
\* sequence ended without one, the client never reaches the prompt.
C34_StartupPrecedesQuery ==
    /\ (\E k \in 1..Len(out) : out[k].msg.kind = "SimpleQuery") => tasks.ready
    /\ tasks.pc \in {"prompt", "do_query", "done"} => tasks.ready

\* C39: client SSL negotiation. After SSLRequest the answers 'S' and 'N' both
\* lead to the Startup message being sent; any other answer is an error and
\* no Startup is sent.
C39_ClientSSLAnswer ==
    /\ tasks.answer \in {<<TagS>>, <<TagN>>} => tasks.pc # "failed"
    /\ (tasks.request_ssl /\ tasks.pc \notin {"main", "ssl_answer"}
            /\ tasks.answer \notin {<<TagS>>, <<TagN>>}) =>
           /\ tasks.pc = "failed"
           /\ \A k \in 1..Len(out) : out[k].msg.kind # "Startup"

(***************************************************************************)
(* SpecQuery: do_query of the two clients (src/src/bin/client.rs,          *)
(* src/src/bin/async_client.rs) called once for each query cycle the       *)
(* server answers with.  The blocking client pulls its messages from the   *)
(* bytes in sock; the cooperative client is given the messages of the      *)
(* frames, one for each turn of its while-let loop.  tasks.pg is           *)
(* pg.row_description; out is the list of the loop turns.                  *)
(***************************************************************************)
\* One query cycle of the server: RowDescription? DataRow* end ReadyForQuery,
\* each DataRow with as many fields as the RowDescription.
QueryCycles ==
    {<<e, ReadyForQuery("Idle")>> : e \in {CommandComplete(<<65>>), EmptyQueryResponse}}
        \cup {<<RowDescription([i \in 1..k |-> string_field(<<65>>)])>>
                  \o [j \in 1..r |-> DataRow([i \in 1..k |-> IF i = 1 THEN Some(<<66>>) ELSE None])]
                  \o <<e, ReadyForQuery("Idle")>> :
                  k \in 1..MaxFields, r \in 0..1,
                  e \in {CommandComplete(<<65>>), EmptyQueryResponse}}

RECURSIVE Concat_cycles(_)
Concat_cycles(cs) == IF cs = <<>> THEN <<>> ELSE Head(cs) \o Concat_cycles(Tail(cs))

\* One turn of the loop of do_query on the message m with pg.row_description
\* rd: the description afterwards, whether the loop goes on, and whether the
\* turn panicked (assert_eq!, unimplemented!).
do_query(client, rd, m) ==
    CASE m.kind = "RowDescription" -> [rd |-> m, loop |-> TRUE, panic |-> FALSE]
      [] m.kind = "DataRow" ->
             [rd |-> rd, loop |-> TRUE,
              panic |-> Len(IF rd = NoMsg THEN <<>> ELSE field_names(rd)) # Len(m.fields)]
      [] m.kind = "CommandComplete" -> [rd |-> NoMsg, loop |-> TRUE, panic |-> FALSE]
      [] m.kind = "EmptyQueryResponse" ->
             IF client = "client" THEN [rd |-> NoMsg, loop |-> TRUE, panic |-> FALSE]
             ELSE [rd |-> rd, loop |-> FALSE, panic |-> TRUE]
      [] m.kind = "ReadyForQuery" -> [rd |-> rd, loop |-> FALSE, panic |-> FALSE]
      [] m.kind = "NoticeMessage" ->
             IF client = "client" THEN [rd |-> rd, loop |-> TRUE, panic |-> FALSE]
             ELSE [rd |-> rd, loop |-> FALSE, panic |-> TRUE]
      [] OTHER ->
             IF client = "client" THEN [rd |-> rd, loop |-> FALSE, panic |-> FALSE]
             ELSE [rd |-> rd, loop |-> FALSE, panic |-> TRUE]

InitQuery ==
    /\ adapter \in {"client", "async_client"}
    /\ \E cs \in UNION {[1..n -> QueryCycles] : n \in 1..2} :
          /\ sent = [i \in 1..Len(Concat_cycles(cs)) |-> Enc(Concat_cycles(cs)[i])]
          /\ tasks = [pc |-> "prompt", pg |-> NoMsg, queries |-> 0, cycles |-> Len(cs),
                      next |-> 1]
    /\ sock = FrameBytes(sent)
    /\ arrived = Len(sock)
    /\ rpos = 0
    /\ apos = 0
    /\ iters = <<>>
    /\ pulls = <<>>
    /\ aborted = FALSE
    /\ dropped = FALSE
    /\ gates = <<>>
    /\ out = <<>>
    /\ CodecIdle
    /\ StreamIdle

\* do_query: backend.send_message(query)?; backend.read_messages()
QuerySend ==
    /\ adapter \in {"client", "async_client"} /\ tasks.pc = "prompt"
    /\ tasks.queries < tasks.cycles
    /\ iters' = Opened(IF adapter = "client" THEN "Backend_read_messages"
                       ELSE "AsyncBackend_read_messages")
    /\ out' = Append(out, [kind |-> "query", msg |-> SimpleQuery(<<65>>), before |-> tasks.pg,
                           after |-> tasks.pg, panic |-> FALSE])
    /\ tasks' = [tasks EXCEPT !.pc = "do_query", !.queries = @ + 1]
    /\ UNCHANGED <<adapter, dropped, sock, sent, arrived, rpos, apos, pulls, aborted, gates,
                   codecVars, streamVars>>

\* client.rs do_query: one turn of `for message in backend.read_messages()?`
QueryPull ==
    /\ adapter = "client" /\ tasks.pc = "do_query"
    /\ \E r \in {Backend_read_messages_next(iters[Len(iters)].finished, sock, rpos,
                                            TcpStream_read(5))} :
          /\ rpos' = r.pos
          /\ iters' = [iters EXCEPT ![Len(iters)].finished = r.finished]
          /\ pulls' = Append(pulls, Pulled(Len(iters), r))
          /\ IF r.vis = "Some"
             THEN \E d \in {do_query(adapter, tasks.pg, r.msg)} :
                     /\ out' = Append(out, [kind |-> "turn", msg |-> r.msg, before |-> tasks.pg,
                                            after |-> d.rd, panic |-> d.panic])
                     /\ aborted' = d.panic
                     /\ tasks' = [tasks EXCEPT !.pg = d.rd,
                                               !.pc = CASE d.panic -> "panicked"
                                                        [] d.loop -> "do_query"
                                                        [] OTHER -> "prompt"]
             ELSE /\ out' = out
                  /\ aborted' = (r.vis = "Panic")
                  /\ tasks' = [tasks EXCEPT !.pc = IF r.vis = "Panic" THEN "panicked"
                                                   ELSE "prompt"]
    /\ UNCHANGED <<adapter, dropped, sock, sent, arrived, apos, gates, codecVars, streamVars>>

\* async_client.rs do_query: one turn of
\* `while let Some(query_message) = query_messages.next().await`
QueryNext ==
    /\ adapter = "async_client" /\ tasks.pc = "do_query"
    /\ tasks.next <= Len(sent)
    /\ \E d \in {do_query(adapter, tasks.pg, sent[tasks.next].msg)} :
          /\ out' = Append(out, [kind |-> "turn", msg |-> sent[tasks.next].msg,
                                 before |-> tasks.pg, after |-> d.rd, panic |-> d.panic])
          /\ aborted' = d.panic
          /\ apos' = FrameEnd(sent, tasks.next)
          /\ tasks' = [tasks EXCEPT !.pg = d.rd, !.next = @ + 1,
                                    !.pc = CASE d.panic -> "panicked"
                                             [] d.loop -> "do_query"
                                             [] OTHER -> "prompt"]
    /\ UNCHANGED <<adapter, dropped, sock, sent, arrived, rpos, iters, pulls, gates,
                   codecVars, streamVars>>

NextQuery ==
    \/ QuerySend
    \/ QueryPull
    \/ QueryNext

SpecQuery == InitQuery /\ [][NextQuery]_vars

\* C35: client row-description state. In do_query of both clients the row
\* description is set by RowDescription, cleared by CommandComplete and by
\* EmptyQueryResponse, and left alone by every other message; no turn of the
\* loop panics, so the assertion on the field count holds at every DataRow;
\* and each query starts with no row description.
C35_RowDescriptionState ==
    \A k \in 1..Len(out) :
        /\ ~out[k].panic
        /\ out[k].kind = "query" => out[k].before = NoMsg
        /\ out[k].kind = "turn" =>
              out[k].after = CASE out[k].msg.kind = "RowDescription" -> out[k].msg
                               [] out[k].msg.kind \in {"CommandComplete", "EmptyQueryResponse"} ->
                                      NoMsg
                               [] OTHER -> out[k].before

====
